---- MODULE Spec2Model ----
(***************************************************************************)
(* A model of the ceremony orchestrator of webauthn-server-buildkit:       *)
(* WebAuthnServer (src/src/server.ts), the authentication and registration *)
(* response verifiers, and the in-memory storage adapter                   *)
(* (src/src/adapters/memory.ts).                                           *)
(*                                                                         *)
(* JavaScript runs one task at a time: an async method runs without        *)
(* interruption from its call up to its first `await`, and from one        *)
(* `await` to the next.  Each such segment is one action below; other      *)
(* calls may run between two segments of the same call.                    *)
(***************************************************************************)
EXTENDS Integers, Sequences, FiniteSets, TLC

(***************************************************************************)
(* Bounds of the model.                                                    *)
(***************************************************************************)
MaxCounter == 3      \* largest signature counter given to a verifier checked on its own
MaxTicks == 2        \* number of clock advances
MaxDrift == 1        \* milliseconds the clock may advance inside calls, between two ticks

(* The clock advances in steps of TickMs milliseconds. *)
TickMs == 60000

(* Two callers, whose calls may overlap. *)
Calls == {"a", "b"}
Counters == 0..MaxCounter
(* Counters of the ceremonies: 0 (an authenticator without a counter) and   *)
(* the values 5 and 6 of the counter-regression scenario.                   *)
CeremonyCounters == {0, 5, 6}
MaxTime == MaxTicks * TickMs
(* Milliseconds that may pass between two readings of the clock in one call. *)
ClockSkews == {0, 1}

(***************************************************************************)
(* Values the callers and clients use.                                     *)
(***************************************************************************)
Challenges == {"ch1", "ch2"}         \* challenges callers and clients present
GeneratedChallenges == {"ch1"}       \* challenges generateChallenge draws
StoredCredIds == {"c1"}
PassedCredIds == {"c1", "c2"}
RpId == "example.com"
Origin == "https://example.com"
OtherOrigin == "https://attacker.example.com"
OtherRpId == "other.example"
UserVerificationValues == {"required", "preferred", "discouraged"}

None == "none"
Null == [null |-> TRUE]     \* null / undefined where the other values are records
EmptyMap == [x \in {} |-> Null]

(* The user index of the credentials a store starts with. *)
StoredIndex == [u \in {"u1"} |-> StoredCredIds]

VARIABLES
  rawConfig,       \* the WebAuthnServerConfig handed to the constructor
  ctor,            \* "pending", "constructed" or "CONFIGURATION_ERROR"
  config,          \* WebAuthnServer.config (InternalConfig), Null before construction
  now,             \* Date.now()
  challengesMap,   \* MemoryStorageAdapter.challengesMap
  credentialsMap,  \* MemoryStorageAdapter.credentialsMap
  credentialsByUserId, \* MemoryStorageAdapter.credentialsByUserId
  calls,           \* the position and the result of each orchestrator call
  vin,             \* parameters of a verifier call checked on its own
  vout,            \* its result
  sessionsMap,     \* MemoryStorageAdapter.sessionsMap
  sessionsByUserId, \* MemoryStorageAdapter.sessionsByUserId
  scalls,          \* the position and the result of each session call
  tokens,          \* the session tokens returned to callers so far
  history          \* what has happened to each session (for the properties only)

sessionVars == <<sessionsMap, sessionsByUserId, scalls, tokens, history>>

vars == <<rawConfig, ctor, config, now, challengesMap, credentialsMap, credentialsByUserId,
          calls, vin, vout, sessionVars>>

(***************************************************************************)
(* Configuration: WebAuthnServer.validateConfig and buildInternalConfig.   *)
(* A raw configuration records, of each field, what the checks read:       *)
(* whether the required strings are present, the length of the secret      *)
(* (0: absent or empty), and the numbers (0: absent or 0, both falsy).     *)
(***************************************************************************)
DefaultChallengeSize == 32
DefaultTimeout == 60000
DefaultSessionDuration == 86400000
MinSecretLength == 32
MinChallengeSize == 16
MaxChallengeSize == 64
MinTimeout == 10000

(* validateConfig with the lower challenge-size bound off by one *)
validateConfig_OffByOne(c) ==
  IF ~c.rpName THEN "CONFIGURATION_ERROR"
  ELSE IF ~c.rpID THEN "CONFIGURATION_ERROR"
  ELSE IF ~c.origin THEN "CONFIGURATION_ERROR"
  ELSE IF c.secretLen = 0 THEN "CONFIGURATION_ERROR"
  ELSE IF c.secretLen < MinSecretLength THEN "CONFIGURATION_ERROR"
  ELSE IF c.challengeSize # 0
          /\ (c.challengeSize < MinChallengeSize - 1 \/ c.challengeSize > MaxChallengeSize)
       THEN "CONFIGURATION_ERROR"
  ELSE IF c.timeout # 0 /\ c.timeout < MinTimeout THEN "CONFIGURATION_ERROR"
  ELSE "ok"

validateConfig(c) ==
  IF ~c.rpName THEN "CONFIGURATION_ERROR"
  ELSE IF ~c.rpID THEN "CONFIGURATION_ERROR"
  ELSE IF ~c.origin THEN "CONFIGURATION_ERROR"
  ELSE IF c.secretLen = 0 THEN "CONFIGURATION_ERROR"
  ELSE IF c.secretLen < MinSecretLength THEN "CONFIGURATION_ERROR"
  ELSE IF c.challengeSize # 0
          /\ (c.challengeSize < MinChallengeSize \/ c.challengeSize > MaxChallengeSize)
       THEN "CONFIGURATION_ERROR"
  ELSE IF c.timeout # 0 /\ c.timeout < MinTimeout THEN "CONFIGURATION_ERROR"
  ELSE "ok"

buildInternalConfig(c) ==
  [ secretLen       |-> c.secretLen,
    challengeSize   |-> IF c.challengeSize # 0 THEN c.challengeSize ELSE DefaultChallengeSize,
    timeout         |-> IF c.timeout # 0 THEN c.timeout ELSE DefaultTimeout,
    sessionDuration |-> IF c.sessionDuration # 0 THEN c.sessionDuration
                                                  ELSE DefaultSessionDuration,
    userVerification |-> IF c.userVerification # "" THEN c.userVerification ELSE "preferred",
    storageAdapter  |-> c.storageAdapter ]

(* A session duration short enough for sessions to expire within MaxTicks. *)
ShortSessionDuration == 60000

RawConfigs ==
  [ rpName : BOOLEAN, rpID : BOOLEAN, origin : BOOLEAN,
    secretLen : {0, 31, 32, 33},
    challengeSize : {-1, 0, 15, 16, 32, 64, 65},
    timeout : {0, 9999, 10000, 60000},
    sessionDuration : {0, ShortSessionDuration},
    userVerification : {"", "required"},
    storageAdapter : BOOLEAN ]

(* new WebAuthnServer(config) *)
Construct ==
  /\ ctor = "pending"
  /\ LET v == validateConfig(rawConfig) IN
       IF v = "ok"
         THEN /\ ctor' = "constructed"
              /\ config' = buildInternalConfig(rawConfig)
         ELSE /\ ctor' = v
              /\ config' = config
  /\ UNCHANGED <<rawConfig, now, challengesMap, credentialsMap, credentialsByUserId, calls, vin, vout,
                 sessionVars>>

(***************************************************************************)
(* MemoryStorageAdapter.  A map of the adapter is a function whose domain  *)
(* is the set of keys present.                                             *)
(***************************************************************************)
challenges_create(m, data) ==
  [c \in (DOMAIN m) \cup {data.challenge} |-> IF c = data.challenge THEN data ELSE m[c]]

challenges_find(m, challenge, t) ==
  IF challenge \in DOMAIN m /\ m[challenge].expiresAt > t THEN m[challenge] ELSE Null

(* challenges.delete that forgets to remove the entry *)
challenges_delete_Keep(m, challenge) == m

challenges_delete(m, challenge) ==
  [c \in (DOMAIN m) \ {challenge} |-> m[c]]

(* challenges.deleteExpired that keeps a challenge at the instant it expires *)
challenges_deleteExpired_Strict(m, t) ==
  [c \in {d \in DOMAIN m : ~(m[d].expiresAt < t)} |-> m[c]]

challenges_deleteExpired(m, t) ==
  [c \in {d \in DOMAIN m : ~(m[d].expiresAt <= t)} |-> m[c]]

(* credentials.updateCounter that reports success without writing *)
credentials_updateCounter_Skip(m, id, counter) == m

credentials_updateCounter(m, id, counter) ==
  IF id \in DOMAIN m THEN [m EXCEPT ![id].counter = counter] ELSE m

credentials_updateLastUsed(m, id, t) ==
  IF id \in DOMAIN m THEN [m EXCEPT ![id].lastUsedAt = t] ELSE m

(***************************************************************************)
(* Dates.  A Date object and its ISO-8601 string are different values that *)
(* denote the same millisecond; JSON.stringify writes a Date as its ISO    *)
(* string and JSON.parse returns that string, not a Date.                  *)
(***************************************************************************)
DateOf(ms) == [kind |-> "Date", ms |-> ms]

toISOString(d) == [kind |-> "string", ms |-> d.ms]

(* new Date(x).getTime(), x a Date or an ISO string *)
NewDate(x) == x.ms

(* A property that is not present in an object. *)
Absent == [kind |-> "absent", ms |-> 0]

(* JSON.parse(JSON.stringify(data)) of a SessionData object *)
JSONRoundTrip(data) ==
  [data EXCEPT !.expiresAt = IF @.kind = "Date" THEN toISOString(@) ELSE @]

(***************************************************************************)
(* MemoryStorageAdapter.sessions.  sessionsByUserId maps a user id to the  *)
(* set of its session ids; the operations that write both maps return the *)
(* pair of them.                                                           *)
(***************************************************************************)
sessions_create(m, ix, sessionId, data) ==
  [map   |-> [s \in (DOMAIN m) \cup {sessionId} |-> IF s = sessionId THEN data ELSE m[s]],
   index |-> [u \in (DOMAIN ix) \cup {data.userId} |->
                IF u = data.userId
                  THEN (IF u \in DOMAIN ix THEN ix[u] ELSE {}) \cup {sessionId}
                  ELSE ix[u]]]

(* sessions.find that still returns a session at the instant it expires *)
sessions_find_AtExpiry(m, sessionId, t) ==
  IF sessionId \in DOMAIN m /\ NewDate(m[sessionId].expiresAt) >= t THEN m[sessionId] ELSE Null

sessions_find(m, sessionId, t) ==
  IF sessionId \in DOMAIN m /\ NewDate(m[sessionId].expiresAt) > t THEN m[sessionId] ELSE Null

(* sessions.update that reports success without writing *)
sessions_update_Skip(m, sessionId, expiresAt) == m

(* sessions.update that stores the session again when it is gone *)
sessions_update_Upsert(m, sessionId, expiresAt) ==
  IF sessionId \in DOMAIN m THEN [m EXCEPT ![sessionId].expiresAt = expiresAt]
  ELSE [s \in (DOMAIN m) \cup {sessionId} |->
          IF s = sessionId
            THEN [userId |-> "u1", credentialId |-> "c1", expiresAt |-> expiresAt,
                  userVerified |-> TRUE]
            ELSE m[s]]

(* sessions.update that forgets the session it was asked to extend *)
sessions_update_Drop(m, sessionId, expiresAt) ==
  [s \in (DOMAIN m) \ {sessionId} |-> m[s]]

(* sessions.update(sessionId, {expiresAt}) *)
sessions_update(m, sessionId, expiresAt) ==
  IF sessionId \in DOMAIN m THEN [m EXCEPT ![sessionId].expiresAt = expiresAt] ELSE m

sessions_delete(m, ix, sessionId) ==
  IF sessionId \in DOMAIN m
    THEN [map   |-> [s \in (DOMAIN m) \ {sessionId} |-> m[s]],
          index |-> [u \in DOMAIN ix |->
                       IF u = m[sessionId].userId THEN ix[u] \ {sessionId} ELSE ix[u]]]
    ELSE [map |-> m, index |-> ix]

(* sessions.deleteByUserId that clears the index and leaves the sessions *)
sessions_deleteByUserId_IndexOnly(m, ix, userId) ==
  LET sessionIds == IF userId \in DOMAIN ix THEN ix[userId] ELSE {} IN
  IF sessionIds = {}
    THEN [map |-> m, index |-> ix]
    ELSE [map   |-> m,
          index |-> [u \in (DOMAIN ix) \ {userId} |-> ix[u]]]

sessions_deleteByUserId(m, ix, userId) ==
  LET sessionIds == IF userId \in DOMAIN ix THEN ix[userId] ELSE {} IN
  IF sessionIds = {}
    THEN [map |-> m, index |-> ix]
    ELSE [map   |-> [s \in (DOMAIN m) \ sessionIds |-> m[s]],
          index |-> [u \in (DOMAIN ix) \ {userId} |-> ix[u]]]

(* sessions.deleteExpired visits the sessions in the order they were        *)
(* inserted, which is the order of their ids, and awaits after each delete: *)
(* the sessions after `cursor` that are expired at t.                       *)
ExpiredAfter(m, cursor, t) ==
  {s \in DOMAIN m : s > cursor /\ NewDate(m[s].expiresAt) <= t}

(* the first of them *)
NextExpired(m, cursor, t) ==
  CHOOSE s \in ExpiredAfter(m, cursor, t) : \A r \in ExpiredAfter(m, cursor, t) : s <= r

(***************************************************************************)
(* Base64URL (utils/base64url.ts).  A string is the sequence of its        *)
(* characters, a buffer the sequence of its bytes.  Buffer's base64 codec  *)
(* is computed bit by bit: a character carries six bits, the bits of a     *)
(* buffer are written eight to a byte, and a decoder keeps only the whole  *)
(* bytes.                                                                  *)
(***************************************************************************)
Base64Alphabet ==
  << "A", "B", "C", "D", "E", "F", "G", "H", "I", "J", "K", "L", "M", "N", "O", "P",
     "Q", "R", "S", "T", "U", "V", "W", "X", "Y", "Z", "a", "b", "c", "d", "e", "f",
     "g", "h", "i", "j", "k", "l", "m", "n", "o", "p", "q", "r", "s", "t", "u", "v",
     "w", "x", "y", "z", "0", "1", "2", "3", "4", "5", "6", "7", "8", "9", "+", "/" >>

Pow2(n) == IF n = 0 THEN 1 ELSE IF n = 1 THEN 2 ELSE IF n = 2 THEN 4 ELSE IF n = 3 THEN 8
           ELSE IF n = 4 THEN 16 ELSE IF n = 5 THEN 32 ELSE IF n = 6 THEN 64
           ELSE IF n = 7 THEN 128 ELSE IF n = 8 THEN 256 ELSE IF n = 9 THEN 512 ELSE 1024

(* str.replace(/from/g, to), from and to single characters *)
ReplaceAll(str, from, to) == [i \in 1..Len(str) |-> IF str[i] = from THEN to ELSE str[i]]

(* str.replace(/c/g, '') *)
RemoveAll(str, c) == SelectSeq(str, LAMBDA x : x # c)

(* str.padEnd(length, c) *)
PadEnd(str, length, c) ==
  IF length <= Len(str) THEN str
  ELSE [i \in 1..length |-> IF i <= Len(str) THEN str[i] ELSE c]

(* The six bits of a base64 character. *)
Sextet(c) == (CHOOSE i \in 1..64 : Base64Alphabet[i] = c) - 1

(* Buffer.from(bytes).toString('base64') *)
toBase64(bytes) ==
  LET m == Len(bytes)
      n == (8 * m + 5) \div 6
      At(j) == LET i == ((j - 1) * 6) \div 8 + 1
                   off == ((j - 1) * 6) % 8
                   two == bytes[i] * 256 + (IF i + 1 <= m THEN bytes[i + 1] ELSE 0)
               IN Base64Alphabet[((two \div Pow2(10 - off)) % 64) + 1]
  IN PadEnd([j \in 1..n |-> At(j)], n + ((4 - (n % 4)) % 4), "=")

(* Buffer.from(base64, 'base64') that shifts the bits of a partial last    *)
(* group one place too far                                                 *)
fromBase64_Shifted(base64) ==
  LET q == RemoveAll(base64, "=")
      n == (6 * Len(q)) \div 8
      At(k) == LET i == ((k - 1) * 8) \div 6 + 1
                   off == ((k - 1) * 8) % 6
                   two == Sextet(q[i]) * 64 + Sextet(q[i + 1])
               IN IF k = n /\ Len(q) % 4 # 0
                    THEN (two \div Pow2(5 - off)) % 256
                    ELSE (two \div Pow2(4 - off)) % 256
  IN [k \in 1..n |-> At(k)]

(* Buffer.from(base64, 'base64'), for base64 characters followed by        *)
(* padding: the bits of the characters, cut into bytes; the bits after the *)
(* last whole byte are dropped.                                            *)
fromBase64(base64) ==
  LET q == RemoveAll(base64, "=")
      n == (6 * Len(q)) \div 8
      At(k) == LET i == ((k - 1) * 8) \div 6 + 1
                   off == ((k - 1) * 8) % 6
                   two == Sextet(q[i]) * 64 + Sextet(q[i + 1])
               IN (two \div Pow2(4 - off)) % 256
  IN [k \in 1..n |-> At(k)]

bufferToBase64URL(buffer) ==
  RemoveAll(ReplaceAll(ReplaceAll(toBase64(buffer), "+", "-"), "/", "_"), "=")

base64URLToBuffer(base64url) ==
  fromBase64(PadEnd(ReplaceAll(ReplaceAll(base64url, "-", "+"), "_", "/"),
                    Len(base64url) + ((4 - (Len(base64url) % 4)) % 4), "="))

(* isBase64URL: /^[A-Za-z0-9_-]+$/.test(str) *)
isBase64URL(str) ==
  /\ Len(str) >= 1
  /\ \A i \in 1..Len(str) :
        \/ str[i] \in {"-", "_"}
        \/ \E j \in 1..62 : Base64Alphabet[j] = str[i]

(***************************************************************************)
(* Session tokens (session/token.ts).  A token is the JSON of              *)
(* {sessionId, data, createdAt} encrypted and authenticated under a key    *)
(* derived from the secret: it opens only with the secret it was sealed    *)
(* with.  The random salt and IV are left out.  The string the caller      *)
(* holds is the Base64URL of the JSON text of {iv, data, tag, salt}, whose  *)
(* length grows with the length of the session id and of the data.         *)
(***************************************************************************)
ServerSecret == "k1"
OtherSecret == "k2"

(* A string that is not a token. *)
BadToken == [key |-> None, payload |-> Null, text |-> <<"i", "n", "v", "a", "l", "i", "d">>]

(* The bytes of JSON.stringify(token): the braces around a body of one      *)
(* byte for each unit of the session id.                                    *)
JSONText(payload) == <<123>> \o [i \in 1..payload.sessionId |-> 115] \o <<125>>

(* The payload createSessionToken encrypts. *)
Payload(sessionId, data, t) ==
  [sessionId |-> sessionId, data |-> JSONRoundTrip(data), createdAt |-> toISOString(DateOf(t))]

createSessionToken(sessionId, data, secret, t) ==
  [key |-> secret,
   payload |-> Payload(sessionId, data, t),
   text |-> bufferToBase64URL(JSONText(Payload(sessionId, data, t)))]

(* parseSessionToken: the value it returns, or the error it throws.  The    *)
(* token opens when the bytes its string decodes to are the JSON text that  *)
(* was sealed and the key derived from the secret is the key it was sealed  *)
(* with.                                                                    *)
parseSessionToken(token, secret) ==
  IF \/ token.payload = Null
     \/ base64URLToBuffer(token.text) # JSONText(token.payload)
     \/ token.key # secret
    THEN [thrown |-> TRUE, code |-> "INVALID_TOKEN", sessionId |-> 0, data |-> Null,
          createdAt |-> Null]
    ELSE [thrown |-> FALSE, code |-> "ok", sessionId |-> token.payload.sessionId,
          data |-> token.payload.data, createdAt |-> DateOf(NewDate(token.payload.createdAt))]

(***************************************************************************)
(* Session calls.  scalls[p] is the session call caller p has in progress. *)
(***************************************************************************)
SIdle == [pc |-> "idle", op |-> None, token |-> Null, userId |-> None, sessionId |-> 0,
          found |-> Null, data |-> Null, calledAt |-> 0, cursor |-> 0, faulted |-> FALSE,
          late |-> {}, covered |-> {}, result |-> Null]

NoHistory == [nextSessionId |-> 1, owner |-> <<>>, expiry |-> <<>>, revoked |-> {},
              userRevoked |-> {}]

NoSessions ==
  /\ sessionsMap = EmptyMap
  /\ sessionsByUserId = EmptyMap
  /\ scalls = [p \in Calls |-> SIdle]
  /\ tokens = {}
  /\ history = NoHistory

(***************************************************************************)
(* The binary inputs of the verifiers, by the fields the verifiers read.   *)
(* sha256 is modelled as an injective tagging of its argument.             *)
(***************************************************************************)
sha256(x) == <<"sha256", x>>

MinAuthDataLength == 37
(* The AAGUID (16 bytes) and the credential id length (2 bytes). *)
AttestedHeaderLength == 18

(* parseAuthenticatorData that does not check the length of authData *)
parseAuthenticatorData_NoLengthCheck(authData) == "ok"

(* parseAuthenticatorData: the error it throws, or "ok".  With the AT flag  *)
(* set it sets credentialId and credentialPublicKey, the latter to every    *)
(* byte after the credential id, extension data included.                   *)
parseAuthenticatorData(authData) ==
  IF authData.len < MinAuthDataLength THEN "AUTHENTICATOR_DATA_TOO_SHORT"
  ELSE IF authData.at /\ authData.len < MinAuthDataLength + AttestedHeaderLength
       THEN "AUTHENTICATOR_DATA_INVALID_CREDENTIAL_DATA"
  ELSE IF authData.at /\ authData.len < MinAuthDataLength + AttestedHeaderLength
                                          + authData.credentialIdLength
       THEN "AUTHENTICATOR_DATA_INVALID_CREDENTIAL_ID"
  ELSE "ok"

(* validateAuthenticatorDataFlags that does not require user presence *)
validateAuthenticatorDataFlags_NoPresence(flags, requireUserVerification) ==
  IF requireUserVerification /\ ~flags.uv THEN "USER_VERIFICATION_REQUIRED"
  ELSE "ok"

(* validateAuthenticatorDataFlags: the error it throws, or "ok" *)
validateAuthenticatorDataFlags(flags, requireUserVerification) ==
  IF ~flags.up THEN "USER_PRESENCE_REQUIRED"
  ELSE IF requireUserVerification /\ ~flags.uv THEN "USER_VERIFICATION_REQUIRED"
  ELSE "ok"

(***************************************************************************)
(* CBOR and COSE keys.  A byte string of CBOR is the sequence of the       *)
(* complete values it holds.  A value is described by what the key parser  *)
(* reads of it: whether it is a map, and the entries 1 (kty), 3 (alg),     *)
(* -1 (crv or n), -2 (x or e) and -3 (y); 0 stands for an integer entry    *)
(* that is absent, Undefined for a byte-string entry that is absent.  A    *)
(* byte string of key material is described by its length and by the key   *)
(* pair it is the public part of ("junk": of none).                        *)
(***************************************************************************)
Undefined == [len |-> -1, of |-> None]

KeyBytes(len, of) == [len |-> len, of |-> of]

OKP == 1
EC2 == 2
RSA == 3

ES256 == -7
ES384 == -35
ES512 == -36
RS256 == -257
RS384 == -258
RS512 == -259
PS256 == -37
PS384 == -38
PS512 == -39
EdDSA == -8

P256 == 1
P384 == 2
P521 == 3
Ed25519 == 6

CborMap(kty, alg, crv, x, y, n, e) ==
  [kind |-> "map", kty |-> kty, alg |-> alg, crv |-> crv, x |-> x, y |-> y, n |-> n, e |-> e]

(* Bytes that are not a complete CBOR value. *)
MalformedCbor ==
  [CborMap(0, 0, 0, Undefined, Undefined, Undefined, Undefined) EXCEPT !.kind = "malformed"]

(* A CBOR value that is not a map. *)
CborInteger ==
  [CborMap(0, 0, 0, Undefined, Undefined, Undefined, Undefined) EXCEPT !.kind = "integer"]

(* A CBOR map without the entries of a key: authenticator extension data. *)
ExtensionMap == CborMap(0, 0, 0, Undefined, Undefined, Undefined, Undefined)

(* decodeCBOR that returns the first value and ignores the bytes after it *)
decodeCBOR_First(data) ==
  IF Len(data) >= 1 /\ data[1].kind # "malformed"
    THEN [error |-> "ok", value |-> data[1]]
    ELSE [error |-> "CBOR_DECODE_ERROR", value |-> MalformedCbor]

(* decodeCBOR: cborDecoder.decode accepts exactly one complete value and    *)
(* throws when bytes are missing or left over.                              *)
decodeCBOR(data) ==
  IF Len(data) = 1 /\ data[1].kind # "malformed"
    THEN [error |-> "ok", value |-> data[1]]
    ELSE [error |-> "CBOR_DECODE_ERROR", value |-> MalformedCbor]

NoKey == CborMap(0, 0, 0, Undefined, Undefined, Undefined, Undefined)

(* parseCOSEPublicKey: the key it returns, or the error it throws *)
parseCOSEPublicKey(publicKeyBytes) ==
  LET decoded == decodeCBOR(publicKeyBytes)
      coseKey == decoded.value
      Thrown(code) == [error |-> code, key |-> NoKey]
  IN
  IF decoded.error # "ok" THEN Thrown("COSE_DECODE_ERROR")
  ELSE IF coseKey.kind # "map" THEN Thrown("COSE_INVALID_FORMAT")
  ELSE IF coseKey.kty = 0 THEN Thrown("COSE_MISSING_KTY")
  ELSE IF coseKey.kty = EC2
    THEN IF coseKey.crv = 0 \/ coseKey.x = Undefined \/ coseKey.y = Undefined
           THEN Thrown("COSE_EC2_INVALID")
           ELSE [error |-> "ok",
                 key |-> CborMap(EC2, coseKey.alg, coseKey.crv, coseKey.x, coseKey.y,
                                 Undefined, Undefined)]
  ELSE IF coseKey.kty = RSA
    THEN IF coseKey.n = Undefined \/ coseKey.e = Undefined
           THEN Thrown("COSE_RSA_INVALID")
           ELSE [error |-> "ok",
                 key |-> CborMap(RSA, coseKey.alg, 0, Undefined, Undefined,
                                 coseKey.n, coseKey.e)]
  ELSE IF coseKey.kty = OKP
    THEN IF coseKey.crv = 0 \/ coseKey.x = Undefined
           THEN Thrown("COSE_OKP_INVALID")
           ELSE [error |-> "ok",
                 key |-> CborMap(OKP, coseKey.alg, coseKey.crv, coseKey.x, Undefined,
                                 Undefined, Undefined)]
  ELSE Thrown("COSE_UNSUPPORTED_KEY_TYPE")

(* getCOSEAlgorithmIdentifier: the identifier, or the error it throws *)
getCOSEAlgorithmIdentifier(coseKey) ==
  IF coseKey.alg # 0 THEN [error |-> "ok", alg |-> coseKey.alg]
  ELSE IF coseKey.kty = EC2
    THEN IF coseKey.crv = P256 THEN [error |-> "ok", alg |-> ES256]
         ELSE IF coseKey.crv = P384 THEN [error |-> "ok", alg |-> ES384]
         ELSE IF coseKey.crv = P521 THEN [error |-> "ok", alg |-> ES512]
         ELSE [error |-> "COSE_UNKNOWN_ALGORITHM", alg |-> 0]
  ELSE IF coseKey.kty = RSA THEN [error |-> "ok", alg |-> RS256]
  ELSE IF coseKey.kty = OKP
    THEN IF coseKey.crv = Ed25519 THEN [error |-> "ok", alg |-> EdDSA]
         ELSE [error |-> "COSE_UNKNOWN_ALGORITHM", alg |-> 0]
  ELSE [error |-> "COSE_UNKNOWN_ALGORITHM", alg |-> 0]

(* getAlgorithmInfo: name, hash and curve of an algorithm, or the error *)
getAlgorithmInfo(alg) ==
  IF alg = ES256 THEN [error |-> "ok", name |-> "ECDSA", hash |-> "SHA-256", namedCurve |-> "P-256"]
  ELSE IF alg = ES384
    THEN [error |-> "ok", name |-> "ECDSA", hash |-> "SHA-384", namedCurve |-> "P-384"]
  ELSE IF alg = ES512
    THEN [error |-> "ok", name |-> "ECDSA", hash |-> "SHA-512", namedCurve |-> "P-521"]
  ELSE IF alg = RS256
    THEN [error |-> "ok", name |-> "RSASSA-PKCS1-v1_5", hash |-> "SHA-256", namedCurve |-> ""]
  ELSE IF alg = RS384
    THEN [error |-> "ok", name |-> "RSASSA-PKCS1-v1_5", hash |-> "SHA-384", namedCurve |-> ""]
  ELSE IF alg = RS512
    THEN [error |-> "ok", name |-> "RSASSA-PKCS1-v1_5", hash |-> "SHA-512", namedCurve |-> ""]
  ELSE IF alg = PS256
    THEN [error |-> "ok", name |-> "RSA-PSS", hash |-> "SHA-256", namedCurve |-> ""]
  ELSE IF alg = PS384
    THEN [error |-> "ok", name |-> "RSA-PSS", hash |-> "SHA-384", namedCurve |-> ""]
  ELSE IF alg = PS512
    THEN [error |-> "ok", name |-> "RSA-PSS", hash |-> "SHA-512", namedCurve |-> ""]
  ELSE IF alg = EdDSA
    THEN [error |-> "ok", name |-> "Ed25519", hash |-> "SHA-512", namedCurve |-> ""]
  ELSE [error |-> "UNSUPPORTED_ALGORITHM", name |-> "", hash |-> "", namedCurve |-> ""]

(***************************************************************************)
(* Signatures.  A signature is described by the key pair that made it, the *)
(* scheme (name and hash) it was made under and the message it is over.    *)
(* node:crypto is modelled by its documented behaviour: verifying with a   *)
(* key that cannot be imported throws, and createPublicKey accepts the     *)
(* formats 'pem', 'der' and 'jwk' only.                                    *)
(***************************************************************************)
Signature(signer, name, hash, over) ==
  [signer |-> signer, name |-> name, hash |-> hash, over |-> over]

(* ec2KeyToSPKI: the DER it builds, by whether it is a well-formed           *)
(* SubjectPublicKeyInfo of a point of the curve, or the error it throws.    *)
(* The header of the algorithm identifier is written for the 8-byte OID of  *)
(* P-256 and every length in one byte, which the 133-byte point of P-521    *)
(* does not fit.                                                            *)
ec2KeyToSPKI(key, namedCurve) ==
  IF namedCurve \notin {"P-256", "P-384", "P-521"}
    THEN [error |-> "UNSUPPORTED_CURVE", wellFormed |-> FALSE, of |-> None]
    ELSE [error |-> "ok",
          wellFormed |-> /\ namedCurve = "P-256"
                         /\ key.x.len = 32 /\ key.y.len = 32
                         /\ key.x.of # "junk" /\ key.x.of = key.y.of,
          of |-> key.x.of]

(* rsaKeyToSPKI: every length is written in one byte, which holds up to 127. *)
rsaKeyToSPKI(key) ==
  [error |-> "ok",
   wellFormed |-> /\ key.n.len >= 1 /\ key.e.len >= 1
                  /\ (2 + key.n.len) + (2 + key.e.len) + 2 + 1 <= 127
                  /\ key.n.of # "junk",
   of |-> key.n.of]

(* createVerify(hash).update(data).verify({key: spki, ...}, signature) *)
CryptoVerify(algInfo, spki, data, signature) ==
  IF ~spki.wellFormed
    THEN [thrown |-> TRUE, value |-> FALSE]
    ELSE [thrown |-> FALSE,
          value |-> /\ signature.signer = spki.of
                    /\ signature.name = algInfo.name
                    /\ signature.hash = algInfo.hash
                    /\ signature.over = data]

(* createPublicKey({key, format: 'raw', type: 'public'}): TRUE when it throws *)
CreatePublicKeyRawThrows == TRUE

(* verifyEd25519Signature *)
verifyEd25519Signature(signature, data, publicKey) ==
  IF publicKey.x.len # 32 THEN FALSE
  ELSE IF CreatePublicKeyRawThrows THEN FALSE
  ELSE /\ signature.signer = publicKey.x.of
       /\ signature.name = "Ed25519"
       /\ signature.over = data

(* verifySignature as src/crypto/verify.ts has it: Ed25519 is not verified   *)
(* and the catch turns every other error into a VerificationError.          *)
legacyVerifySignature(signature, data, publicKey) ==
  LET alg == getCOSEAlgorithmIdentifier(publicKey)
      algInfo == getAlgorithmInfo(alg.alg)
      Thrown(code) == [thrown |-> TRUE, code |-> code, value |-> FALSE]
      Returned(v) == [thrown |-> FALSE, code |-> "ok", value |-> v]
      Verified(spki) ==
        IF spki.error # "ok" THEN Thrown(spki.error)
        ELSE IF CryptoVerify(algInfo, spki, data, signature).thrown
          THEN Thrown("SIGNATURE_VERIFICATION_FAILED")
          ELSE Returned(CryptoVerify(algInfo, spki, data, signature).value)
  IN
  IF alg.error # "ok" THEN Thrown(alg.error)
  ELSE IF algInfo.error # "ok" THEN Thrown(algInfo.error)
  ELSE IF publicKey.kty = EC2 THEN Verified(ec2KeyToSPKI(publicKey, algInfo.namedCurve))
  ELSE IF publicKey.kty = RSA THEN Verified(rsaKeyToSPKI(publicKey))
  ELSE IF publicKey.kty = OKP
    THEN IF alg.alg # EdDSA THEN Thrown("UNSUPPORTED_OKP_ALGORITHM")
         ELSE Thrown("ED25519_NOT_IMPLEMENTED")
  ELSE Thrown("UNSUPPORTED_KEY_TYPE")

(* verifySignature(signature, data, publicKey): the boolean it returns, or  *)
(* the code of the VerificationError it throws.                             *)
verifySignature(signature, data, publicKey) ==
  LET alg == getCOSEAlgorithmIdentifier(publicKey)
      algInfo == getAlgorithmInfo(alg.alg)
      Thrown(code) == [thrown |-> TRUE, code |-> code, value |-> FALSE]
      Returned(v) == [thrown |-> FALSE, code |-> "ok", value |-> v]
      Verified(spki) ==
        IF spki.error # "ok" THEN Thrown(spki.error)
        ELSE IF CryptoVerify(algInfo, spki, data, signature).thrown
          THEN Returned(FALSE)
          ELSE Returned(CryptoVerify(algInfo, spki, data, signature).value)
  IN
  IF alg.error # "ok" THEN Thrown(alg.error)
  ELSE IF algInfo.error # "ok" THEN Thrown(algInfo.error)
  ELSE IF publicKey.kty = EC2 THEN Verified(ec2KeyToSPKI(publicKey, algInfo.namedCurve))
  ELSE IF publicKey.kty = RSA THEN Verified(rsaKeyToSPKI(publicKey))
  ELSE IF publicKey.kty = OKP
    THEN IF alg.alg # EdDSA THEN Thrown("UNSUPPORTED_OKP_ALGORITHM")
         ELSE Returned(verifyEd25519Signature(signature, data, publicKey))
  ELSE Thrown("UNSUPPORTED_KEY_TYPE")

(* The counter check with < in place of <=: an unchanged counter passes. *)
CounterRejected_AcceptEqual(authCounter, credCounter) ==
  IF ~(authCounter = 0 /\ credCounter = 0)
    THEN authCounter < credCounter
    ELSE FALSE

(* The counter check that lets every presented counter 0 pass. *)
CounterRejected_ZeroPresented(authCounter, credCounter) ==
  IF ~(authCounter = 0)
    THEN authCounter <= credCounter
    ELSE FALSE

(* The counter check of verifyAuthenticationResponse: TRUE when it throws. *)
CounterRejected(authCounter, credCounter) ==
  IF ~(authCounter = 0 /\ credCounter = 0)
    THEN authCounter <= credCounter
    ELSE FALSE

(* The failure reported in the value returned: {verified: false}. *)
Failure_Returned(code) ==
  [thrown |-> FALSE, verified |-> FALSE, code |-> code, newCounter |-> 0, credentialID |-> None,
   rpID |-> None, publicKey |-> <<>>]

(* A thrown error: the promise of the call rejects with this code. *)
Failure(code) ==
  [thrown |-> TRUE, verified |-> FALSE, code |-> code, newCounter |-> 0, credentialID |-> None,
   rpID |-> None, publicKey |-> <<>>]

(* The expected RP IDs whose hash is authData's, in the order of the list. *)
MatchingRpIds(rpIds, authData) ==
  {i \in 1..Len(rpIds) : authData.rpIdHash = sha256(rpIds[i])}

(* The first of the indices in a nonempty set. *)
First(indices) == CHOOSE i \in indices : \A j \in indices : i <= j

(* signatureBase: authenticatorData || SHA-256(clientDataJSON) *)
SignatureBase(response) ==
  <<response.authData, sha256(<<response.type, response.challenge, response.origin>>)>>

(* verifyAuthenticationResponse(config, params): the value it returns, or   *)
(* the code of the error it throws.                                         *)
verifyAuthenticationResponse(cfg, params) ==
  LET response == params.response
      credential == params.credential
      authData == response.authData
      rpIds == params.expectedRPID
      publicKey == parseCOSEPublicKey(credential.publicKey)
      isValidSignature == verifySignature(response.signature, SignatureBase(response),
                                          publicKey.key)
  IN
  IF response.id # credential.id THEN Failure("CREDENTIAL_ID_MISMATCH")
  ELSE IF ~response.jsonOk THEN Failure("AUTHENTICATION_VERIFICATION_FAILED")
  ELSE IF response.type # "webauthn.get" THEN Failure("INVALID_CLIENT_DATA_TYPE")
  ELSE IF response.challenge # params.expectedChallenge THEN Failure("CHALLENGE_MISMATCH")
  ELSE IF response.origin \notin params.expectedOrigin THEN Failure("ORIGIN_MISMATCH")
  ELSE IF parseAuthenticatorData(authData) # "ok" THEN Failure(parseAuthenticatorData(authData))
  ELSE IF MatchingRpIds(rpIds, authData) = {} THEN Failure("RPID_MISMATCH")
  ELSE IF validateAuthenticatorDataFlags(authData, params.requireUserVerification) # "ok"
       THEN Failure(validateAuthenticatorDataFlags(authData, params.requireUserVerification))
  ELSE IF CounterRejected(authData.counter, credential.counter) THEN Failure("COUNTER_ERROR")
  ELSE IF publicKey.error # "ok" THEN Failure(publicKey.error)
  ELSE IF isValidSignature.thrown THEN Failure(isValidSignature.code)
  ELSE IF ~isValidSignature.value THEN Failure("SIGNATURE_VERIFICATION_FAILED")
  ELSE [thrown |-> FALSE, verified |-> TRUE, code |-> "ok", newCounter |-> authData.counter,
        credentialID |-> response.id,
        rpID |-> rpIds[First(MatchingRpIds(rpIds, authData))], publicKey |-> <<>>]

(* verifyRegistrationResponse(config, params).  credentialId and            *)
(* credentialPublicKey are set exactly when the AT flag is: a Uint8Array is *)
(* truthy even when it is empty.                                            *)
verifyRegistrationResponse(cfg, params) ==
  LET response == params.response
      authData == response.authData
      rpIds == params.expectedRPID
  IN
  IF ~response.jsonOk THEN Failure("REGISTRATION_VERIFICATION_FAILED")
  ELSE IF response.type # "webauthn.create" THEN Failure("INVALID_CLIENT_DATA_TYPE")
  ELSE IF response.challenge # params.expectedChallenge THEN Failure("CHALLENGE_MISMATCH")
  ELSE IF response.origin \notin params.expectedOrigin THEN Failure("ORIGIN_MISMATCH")
  ELSE IF ~response.cborOk THEN Failure("CBOR_DECODE_ERROR")
  ELSE IF parseAuthenticatorData(authData) # "ok" THEN Failure(parseAuthenticatorData(authData))
  ELSE IF MatchingRpIds(rpIds, authData) = {} THEN Failure("RPID_MISMATCH")
  ELSE IF validateAuthenticatorDataFlags(authData, params.requireUserVerification) # "ok"
       THEN Failure(validateAuthenticatorDataFlags(authData, params.requireUserVerification))
  ELSE IF ~authData.at THEN Failure("MISSING_CREDENTIAL_DATA")
  ELSE IF parseCOSEPublicKey(authData.credentialPublicKey).error # "ok"
       THEN Failure(parseCOSEPublicKey(authData.credentialPublicKey).error)
  ELSE [thrown |-> FALSE, verified |-> TRUE, code |-> "ok", newCounter |-> authData.counter,
        credentialID |-> authData.credentialId,
        rpID |-> rpIds[1], publicKey |-> authData.credentialPublicKey]

(***************************************************************************)
(* Inputs of the ceremony calls.                                           *)
(***************************************************************************)
AuthData(rpId, counter) ==
  [len |-> MinAuthDataLength, rpIdHash |-> sha256(rpId), up |-> TRUE, uv |-> TRUE,
   counter |-> counter, at |-> FALSE, ed |-> FALSE, credentialIdLength |-> 0,
   credentialId |-> None, credentialPublicKey |-> <<>>]

(* The ES256 key of key pair "kp1" and signatures of its holder. *)
Es256Key == CborMap(EC2, ES256, P256, KeyBytes(32, "kp1"), KeyBytes(32, "kp1"),
                    Undefined, Undefined)

(* The assertion signed by the holder of kp1 with ES256 (valid), or carrying *)
(* the signature of another assertion.                                      *)
Signed(response, valid) ==
  [response EXCEPT !.signature =
     Signature("kp1", "ECDSA", "SHA-256",
               IF valid THEN SignatureBase(response)
                        ELSE SignatureBase([response EXCEPT !.challenge = "replayed"]))]

(* A stored public key: good, or bytes that are not CBOR. *)
StoredKey(ok) == IF ok THEN <<Es256Key>> ELSE <<MalformedCbor>>

(* Assertions a client may send to verifyAuthentication. *)
AuthResponses ==
  { Signed([id |-> "c1", jsonOk |-> TRUE, type |-> "webauthn.get", challenge |-> ch,
            origin |-> Origin, authData |-> AuthData(RpId, n),
            signature |-> Signature(None, "", "", <<>>), cborOk |-> TRUE], sig)
    : ch \in Challenges, n \in CeremonyCounters, sig \in BOOLEAN }

(* Credential records a caller may pass to verifyAuthentication. *)
Credentials ==
  { [id |-> "c1", counter |-> n, publicKey |-> StoredKey(TRUE)] : n \in CeremonyCounters }

(* authData of an attestation: 16 bytes of credential id and the key. *)
AttestedLength == MinAuthDataLength + AttestedHeaderLength + 16 + 77

(* Attestations a client may send to verifyRegistration. *)
RegResponses ==
  { [id |-> "c2", jsonOk |-> TRUE, type |-> "webauthn.create", challenge |-> ch,
     origin |-> o, cborOk |-> TRUE, signature |-> Signature(None, "", "", <<>>),
     authData |-> [AuthData(RpId, 0) EXCEPT !.len = AttestedLength, !.at = TRUE,
                     !.credentialIdLength = 16, !.credentialId = "c2",
                     !.credentialPublicKey = <<Es256Key>>]]
    : ch \in Challenges, o \in {Origin, OtherOrigin} }

(***************************************************************************)
(* The orchestrator.  calls[p] is the call caller p has in progress: `pc`  *)
(* is the await the call is suspended at ("idle": no call in progress) and *)
(* `result` what the verifier returned.  A storage operation may reject    *)
(* (fault): it then has no effect and the call throws when it resumes,     *)
(* which no other call can observe, so the call ends in the same step.     *)
(***************************************************************************)
NoResult == [thrown |-> FALSE, verified |-> FALSE, code |-> None, newCounter |-> 0,
             credentialID |-> None, rpID |-> None, publicKey |-> <<>>]

Idle == [pc |-> "idle", op |-> None, challenge |-> None, credId |-> None,
         result |-> NoResult]

Constructed == ctor = "constructed"

HasStorage == config.storageAdapter

ConfigOrigin == {Origin}

Suspended(p, pc, op, challenge, credId, result) ==
  [calls EXCEPT ![p] = [pc |-> pc, op |-> op, challenge |-> challenge, credId |-> credId,
                        result |-> result]]

(* createRegistrationOptions / createAuthenticationOptions, up to the await *)
(* of challenges.create; without a storage adapter the call returns at once. *)
(* The record takes createdAt from `new Date()` and expiresAt from a second  *)
(* reading of the clock, `Date.now()`, which is `late` milliseconds later.   *)
CreateOptions(p, op, challenge, late, fault) ==
  /\ Constructed
  /\ calls[p].pc = "idle"
  /\ (now % TickMs) + late <= MaxDrift
  /\ IF HasStorage
       THEN now' = now + late
       ELSE now' = now
  /\ IF HasStorage /\ ~fault
       THEN /\ challengesMap' =
                 challenges_create(challengesMap,
                        [challenge |-> challenge,
                         operation |-> IF op = "createRegistrationOptions"
                                         THEN "registration" ELSE "authentication",
                         createdAt |-> now,
                         expiresAt |-> (now + late)
                                        + (IF config.timeout # 0 THEN config.timeout
                                                                 ELSE DefaultTimeout)])
            /\ calls' = Suspended(p, "awaitCreate", op, challenge, None, NoResult)
       ELSE UNCHANGED <<challengesMap, calls>>
  /\ UNCHANGED <<rawConfig, ctor, config, credentialsMap, credentialsByUserId>>

(* The parameters verifyRegistration and verifyAuthentication build. *)
RegistrationParams(response, expectedChallenge) ==
  [response |-> response, expectedChallenge |-> expectedChallenge,
   expectedOrigin |-> ConfigOrigin, expectedRPID |-> <<RpId>>,
   requireUserVerification |-> config.userVerification = "required"]

AuthenticationParams(response, expectedChallenge, credential) ==
  [response |-> response, expectedChallenge |-> expectedChallenge,
   expectedOrigin |-> ConfigOrigin, expectedRPID |-> <<RpId>>,
   credential |-> credential,
   requireUserVerification |-> config.userVerification = "required"]

(* verifyRegistration, up to the await of challenges.delete *)
VerifyRegistration(p, response, expectedChallenge, fault) ==
  /\ Constructed
  /\ calls[p].pc = "idle"
  /\ LET params == RegistrationParams(response, expectedChallenge)
         result == verifyRegistrationResponse(config, params)
     IN IF HasStorage /\ ~result.thrown /\ result.verified /\ ~fault
          THEN /\ challengesMap' = challenges_delete(challengesMap, expectedChallenge)
               /\ calls' = Suspended(p, "awaitDelete", "verifyRegistration",
                                     expectedChallenge, None, result)
          ELSE UNCHANGED <<challengesMap, calls>>
  /\ UNCHANGED <<rawConfig, ctor, config, now, credentialsMap, credentialsByUserId>>

(* verifyAuthentication, up to the await of credentials.updateCounter *)
VerifyAuthentication(p, response, expectedChallenge, credential, fault) ==
  /\ Constructed
  /\ calls[p].pc = "idle"
  /\ LET params == AuthenticationParams(response, expectedChallenge, credential)
         result == verifyAuthenticationResponse(config, params)
     IN IF HasStorage /\ ~result.thrown /\ result.verified /\ ~fault
          THEN /\ credentialsMap' =
                    credentials_updateCounter(credentialsMap, credential.id, result.newCounter)
               /\ calls' = Suspended(p, "awaitUpdateCounter", "verifyAuthentication",
                                     expectedChallenge, credential.id, result)
          ELSE UNCHANGED <<credentialsMap, credentialsByUserId, calls>>
  /\ UNCHANGED <<rawConfig, ctor, config, now, challengesMap, credentialsByUserId>>

(* verifyAuthentication resumes after updateCounter and calls updateLastUsed *)
ResumeUpdateLastUsed(p, fault) ==
  /\ calls[p].pc = "awaitUpdateCounter"
  /\ IF fault
       THEN /\ calls' = [calls EXCEPT ![p] = Idle]
            /\ UNCHANGED <<credentialsMap, credentialsByUserId>>
       ELSE /\ credentialsMap' =
                 credentials_updateLastUsed(credentialsMap, calls[p].credId, now)
            /\ calls' = [calls EXCEPT ![p].pc = "awaitUpdateLastUsed"]
  /\ UNCHANGED <<rawConfig, ctor, config, now, challengesMap, credentialsByUserId>>

(* verifyAuthentication resumes after updateLastUsed and calls challenges.delete *)
ResumeDelete(p, fault) ==
  /\ calls[p].pc = "awaitUpdateLastUsed"
  /\ IF fault
       THEN /\ calls' = [calls EXCEPT ![p] = Idle]
            /\ UNCHANGED challengesMap
       ELSE /\ challengesMap' = challenges_delete(challengesMap, calls[p].challenge)
            /\ calls' = [calls EXCEPT ![p].pc = "awaitDelete"]
  /\ UNCHANGED <<rawConfig, ctor, config, now, credentialsMap, credentialsByUserId>>

(* The call resumes after its last await and returns its result. *)
Return(p) ==
  /\ calls[p].pc \in {"awaitCreate", "awaitDelete"}
  /\ calls' = [calls EXCEPT ![p] = Idle]
  /\ UNCHANGED <<rawConfig, ctor, config, now, challengesMap, credentialsMap, credentialsByUserId>>

(* Time passes. *)
Tick ==
  /\ now < MaxTime
  /\ now' = now + TickMs
  /\ UNCHANGED <<rawConfig, ctor, config, challengesMap, credentialsMap, credentialsByUserId, calls, vin, vout,
                 sessionVars>>

(***************************************************************************)
(* The ceremonies of one server.                                           *)
(***************************************************************************)
CeremonyConfigs ==
  { c \in RawConfigs : /\ c.rpName /\ c.rpID /\ c.origin
                       /\ c.secretLen = 32 /\ c.challengeSize = 0 /\ c.timeout = 0
                       /\ c.sessionDuration = 0
                       /\ c.userVerification = "" }

Init ==
  /\ rawConfig \in CeremonyConfigs
  /\ ctor = "pending"
  /\ config = Null
  /\ now = 0
  /\ challengesMap = EmptyMap
  /\ credentialsMap = [id \in StoredCredIds |-> [counter |-> 0, lastUsedAt |-> -1]]
  /\ credentialsByUserId = StoredIndex
  /\ calls = [p \in Calls |-> Idle]
  /\ vin = Null
  /\ vout = Null
  /\ NoSessions

(* The calls of the two callers; the inputs are the callers' and clients'. *)
Next ==
  \/ Construct
  \/ \E p \in Calls, op \in {"createRegistrationOptions", "createAuthenticationOptions"},
        ch \in GeneratedChallenges, fault \in BOOLEAN :
        CreateOptions(p, op, ch, 0, fault) /\ UNCHANGED <<vin, vout, sessionVars>>
  \/ \E p \in Calls, r \in RegResponses, ch \in Challenges, fault \in BOOLEAN :
        VerifyRegistration(p, r, ch, fault) /\ UNCHANGED <<vin, vout, sessionVars>>
  \/ \E p \in Calls, r \in AuthResponses, ch \in Challenges, c \in Credentials,
        fault \in BOOLEAN :
        VerifyAuthentication(p, r, ch, c, fault) /\ UNCHANGED <<vin, vout, sessionVars>>
  \/ \E p \in Calls, fault \in BOOLEAN :
        ResumeUpdateLastUsed(p, fault) /\ UNCHANGED <<vin, vout, sessionVars>>
  \/ \E p \in Calls, fault \in BOOLEAN :
        ResumeDelete(p, fault) /\ UNCHANGED <<vin, vout, sessionVars>>
  \/ \E p \in Calls : Return(p) /\ UNCHANGED <<vin, vout, sessionVars>>
  \/ Tick

Spec == Init /\ [][Next]_vars

(***************************************************************************)
(* Properties of the ceremonies.                                           *)
(***************************************************************************)
IsVerify(c) == c.op \in {"verifyRegistration", "verifyAuthentication"}

(* The call of p is suspended at its last await and will return verified = true. *)
ReturnsVerified(p) ==
  /\ calls[p].pc = "awaitDelete"
  /\ IsVerify(calls[p])
  /\ calls[p].result.verified

(* p's verifier accepts in this step (the first segment of a verify call). *)
AcceptsNow(p) ==
  /\ calls[p].pc = "idle"
  /\ calls'[p].pc \in {"awaitUpdateCounter", "awaitDelete"}
  /\ IsVerify(calls'[p])
  /\ calls'[p].result.verified

(* C1: with a challenge store configured, of two verify calls in progress   *)
(* together (verifyRegistration or verifyAuthentication) that were given    *)
(* the same expected challenge, at most one returns verified = true.        *)
C1_AtMostOneConcurrentVerify ==
  \A p, q \in Calls :
    (p # q /\ ReturnsVerified(p) /\ ReturnsVerified(q))
      => calls[p].challenge # calls[q].challenge

(* C2: with a challenge store configured, a verify call succeeds only if    *)
(* the expected challenge is at that moment an issued challenge in the      *)
(* store: present, and not past its expires_at.                             *)
C2_VerifyOnlyIssuedChallenge ==
  [][\A p \in Calls :
       AcceptsNow(p) => challenges_find(challengesMap, calls'[p].challenge, now) # Null]_vars

(* C3: for every credential id, across any sequence of verifyAuthentication *)
(* calls, the counter held in the credential store never decreases.         *)
C3_StoredCounterNeverDecreases ==
  [][\A id \in DOMAIN credentialsMap :
       credentialsMap'[id].counter >= credentialsMap[id].counter]_vars

(* C4: if two verifyAuthentication calls for the same credential id are in  *)
(* progress together and both present the same new counter value (greater   *)
(* than 0), at most one of them is accepted.                                *)
C4_SameCounterAcceptedOnce ==
  \A p, q \in Calls :
    (/\ p # q
     /\ ReturnsVerified(p) /\ ReturnsVerified(q)
     /\ calls[p].op = "verifyAuthentication" /\ calls[q].op = "verifyAuthentication"
     /\ calls[p].credId = calls[q].credId
     /\ calls[p].result.newCounter > 0)
      => calls[p].result.newCounter # calls[q].result.newCounter

(* C8: a verify call that returns verified = true has deleted its expected  *)
(* challenge from the store (the step that takes the call to its last await *)
(* leaves challenges.find(expectedChallenge) null), and a challenge that is *)
(* not in the store enters it only by an options call that issues it.       *)
C8_ChallengeDeletedOnSuccess ==
  [][/\ \A p \in Calls :
          (/\ calls[p].pc # "awaitDelete"
           /\ calls'[p].pc = "awaitDelete"
           /\ calls'[p].result.verified)
            => /\ calls'[p].challenge \notin DOMAIN challengesMap'
               /\ challenges_find(challengesMap', calls'[p].challenge, now') = Null
     /\ \A c \in Challenges :
          (c \notin DOMAIN challengesMap /\ c \in DOMAIN challengesMap')
            => \E p \in Calls : /\ calls[p].pc = "idle"
                                /\ calls'[p].pc = "awaitCreate"
                                /\ calls'[p].challenge = c]_vars

(* A call is about to return verified = true and its challenge is gone. *)
C8_Witness ==
  \E p \in Calls :
    /\ ReturnsVerified(p)
    /\ calls[p].challenge \in GeneratedChallenges
    /\ calls[p].challenge \notin DOMAIN challengesMap

(* C9: a verify call writes no partial state: once it has written the       *)
(* credential counter it does not end (by a failure of a later storage      *)
(* operation) before it has written last-used and deleted the challenge.    *)
C9_NoPartialState ==
  [][\A p \in Calls :
       calls[p].pc \in {"awaitUpdateCounter", "awaitUpdateLastUsed"}
         => calls'[p].pc # "idle"]_vars

(***************************************************************************)
(* The options calls on their own: two callers issue challenges on servers *)
(* of every accepted timeout, while the clock advances between and within  *)
(* the calls.                                                              *)
(***************************************************************************)
OptionConfigs ==
  { c \in RawConfigs : /\ c.rpName /\ c.rpID /\ c.origin
                       /\ c.secretLen = 32 /\ c.challengeSize = 0
                       /\ c.timeout \in {0, 10000, 60000}
                       /\ c.sessionDuration = 0
                       /\ c.userVerification = "" }

InitOptions ==
  /\ rawConfig \in OptionConfigs
  /\ ctor = "constructed"
  /\ config = buildInternalConfig(rawConfig)
  /\ now = 0
  /\ challengesMap = EmptyMap
  /\ credentialsMap = [id \in StoredCredIds |-> [counter |-> 0, lastUsedAt |-> -1]]
  /\ credentialsByUserId = StoredIndex
  /\ calls = [p \in Calls |-> Idle]
  /\ vin = Null
  /\ vout = Null
  /\ NoSessions

NextOptions ==
  \/ \E p \in Calls, op \in {"createRegistrationOptions", "createAuthenticationOptions"},
        ch \in Challenges, late \in ClockSkews, fault \in BOOLEAN :
        CreateOptions(p, op, ch, late, fault) /\ UNCHANGED <<vin, vout, sessionVars>>
  \/ \E p \in Calls : Return(p) /\ UNCHANGED <<vin, vout, sessionVars>>
  \/ Tick

SpecOptions == InitOptions /\ [][NextOptions]_vars

(* C11: every challenge record the orchestrator writes to the challenge     *)
(* store satisfies expiresAt = createdAt + timeout exactly, timeout being   *)
(* the operation timeout of the configuration.                              *)
C11_ExpiresAtIsCreatedAtPlusTimeout ==
  \A c \in DOMAIN challengesMap :
    challengesMap[c].expiresAt = challengesMap[c].createdAt + config.timeout

(***************************************************************************)
(* The constructor on its own: every raw configuration is tried.           *)
(***************************************************************************)
InitConfig ==
  /\ rawConfig \in RawConfigs
  /\ ctor = "pending"
  /\ config = Null
  /\ now = 0
  /\ challengesMap = EmptyMap
  /\ credentialsMap = [id \in StoredCredIds |-> [counter |-> 0, lastUsedAt |-> -1]]
  /\ credentialsByUserId = StoredIndex
  /\ calls = [p \in Calls |-> Idle]
  /\ vin = Null
  /\ vout = Null
  /\ NoSessions

NextConfig == Construct

SpecConfig == InitConfig /\ [][NextConfig]_vars

OtherFieldsValid(c) ==
  /\ c.rpName /\ c.rpID /\ c.origin
  /\ c.secretLen >= 32
  /\ c.timeout \in {0, 10000, 60000}

(* C10: every configuration the constructor accepts has a secret of length  *)
(* at least 32, a challenge size in [16, 64] and an operation timeout of at *)
(* least 10000 ms (given, or the default that replaces an absent value);    *)
(* challenge sizes 15 and 65 are rejected with a configuration error, 16    *)
(* and 64 are accepted.                                                     *)
C10_AcceptedConfig ==
  /\ ctor = "constructed" =>
       /\ rawConfig.secretLen >= 32
       /\ config.secretLen >= 32
       /\ config.challengeSize >= 16 /\ config.challengeSize <= 64
       /\ config.timeout >= 10000
       /\ rawConfig.challengeSize # 0 =>
            (rawConfig.challengeSize >= 16 /\ rawConfig.challengeSize <= 64)
       /\ rawConfig.timeout # 0 => rawConfig.timeout >= 10000
  /\ (ctor # "pending" /\ rawConfig.challengeSize \in {15, 65})
       => ctor = "CONFIGURATION_ERROR"
  /\ (ctor # "pending" /\ rawConfig.challengeSize \in {16, 64} /\ OtherFieldsValid(rawConfig))
       => ctor = "constructed"

(* The constructor accepted a configuration with the largest challenge size. *)
C10_Witness ==
  /\ ctor = "constructed"
  /\ rawConfig.challengeSize = 64
  /\ config.challengeSize = 64

(***************************************************************************)
(* verifyAuthenticationResponse on its own: every combination of the       *)
(* fields it reads.                                                        *)
(***************************************************************************)
VerifyInputs ==
  { [response |->
       Signed([id |-> id, jsonOk |-> json, type |-> type, challenge |-> ch, origin |-> o,
               authData |-> [AuthData(rp, n) EXCEPT !.len = len, !.up = up, !.uv = uv],
               signature |-> Signature(None, "", "", <<>>), cborOk |-> TRUE], sig),
     expectedChallenge |-> "ch1",
     expectedOrigin |-> ConfigOrigin,
     expectedRPID |-> <<RpId>>,
     credential |-> [id |-> "c1", counter |-> old, publicKey |-> StoredKey(key)],
     requireUserVerification |-> ruv]
    : id \in PassedCredIds, json \in BOOLEAN, type \in {"webauthn.get", "webauthn.create"},
      ch \in Challenges, o \in {Origin, OtherOrigin}, rp \in {RpId, OtherRpId},
      n \in Counters, len \in {MinAuthDataLength - 1, MinAuthDataLength},
      up \in BOOLEAN, uv \in BOOLEAN, sig \in BOOLEAN, old \in Counters,
      key \in BOOLEAN, ruv \in BOOLEAN }

InitVerify ==
  /\ rawConfig \in {c \in CeremonyConfigs : ~c.storageAdapter}
  /\ ctor = "constructed"
  /\ config = buildInternalConfig(rawConfig)
  /\ now = 0
  /\ challengesMap = EmptyMap
  /\ credentialsMap = [id \in StoredCredIds |-> [counter |-> 0, lastUsedAt |-> -1]]
  /\ credentialsByUserId = StoredIndex
  /\ calls = [p \in Calls |-> Idle]
  /\ vin \in VerifyInputs
  /\ vout = Null
  /\ NoSessions

ApplyVerifyAuthentication ==
  /\ vout = Null
  /\ vout' = verifyAuthenticationResponse(config, vin)
  /\ UNCHANGED <<rawConfig, ctor, config, now, challengesMap, credentialsMap, credentialsByUserId, calls, vin,
                 sessionVars>>

NextVerify == ApplyVerifyAuthentication

SpecVerify == InitVerify /\ [][NextVerify]_vars

(* The steps before the counter check all pass. *)
ReachesCounterCheck(params) ==
  /\ params.response.id = params.credential.id
  /\ params.response.jsonOk
  /\ params.response.type = "webauthn.get"
  /\ params.response.challenge = params.expectedChallenge
  /\ params.response.origin \in params.expectedOrigin
  /\ params.response.authData.len >= MinAuthDataLength
  /\ \E i \in 1..Len(params.expectedRPID) :
        params.response.authData.rpIdHash = sha256(params.expectedRPID[i])
  /\ params.response.authData.up
  /\ (params.requireUserVerification => params.response.authData.uv)

(* Every step other than the counter check passes. *)
OtherwiseValid(params) ==
  /\ ReachesCounterCheck(params)
  /\ params.credential.publicKey = StoredKey(TRUE)
  /\ params.response.signature.over = SignatureBase(params.response)

Presented == vin.response.authData.counter
Passed == vin.credential.counter

ScriptInputs ==
  { [response |-> r, expectedChallenge |-> ch,
     credential |-> [id |-> id, counter |-> n, publicKey |-> StoredKey(TRUE)], stored |-> st]
    : r \in { [x EXCEPT !.id = i] : x \in AuthResponses, i \in PassedCredIds },
      ch \in Challenges, id \in PassedCredIds, n \in CeremonyCounters,
      st \in CeremonyCounters }

InitAuth ==
  /\ rawConfig \in CeremonyConfigs
  /\ ctor = "constructed"
  /\ config = buildInternalConfig(rawConfig)
  /\ now = 0
  /\ vin \in ScriptInputs
  /\ challengesMap = EmptyMap
  /\ credentialsMap = [id \in StoredCredIds |-> [counter |-> vin.stored, lastUsedAt |-> -1]]
  /\ credentialsByUserId = StoredIndex
  /\ calls = [p \in Calls |-> Idle]
  /\ vout = Null
  /\ NoSessions

AdapterError == Failure("ADAPTER_ERROR")

ScriptVerifyAuthentication ==
  /\ vout = Null
  /\ calls["a"].pc = "idle"
  /\ \E fault \in BOOLEAN :
       /\ VerifyAuthentication("a", vin.response, vin.expectedChallenge, vin.credential, fault)
       /\ LET result == verifyAuthenticationResponse(config,
                          AuthenticationParams(vin.response, vin.expectedChallenge,
                                               vin.credential))
          IN vout' = IF result.thrown \/ ~HasStorage THEN result
                     ELSE IF fault THEN AdapterError
                     ELSE Null
  /\ UNCHANGED <<vin, sessionVars>>

ScriptResume ==
  /\ \E fault \in BOOLEAN :
       /\ \/ ResumeUpdateLastUsed("a", fault)
          \/ ResumeDelete("a", fault)
       /\ vout' = IF fault THEN AdapterError ELSE Null
  /\ UNCHANGED <<vin, sessionVars>>

ScriptReturn ==
  /\ Return("a")
  /\ vout' = calls["a"].result
  /\ UNCHANGED <<vin, sessionVars>>

NextAuth ==
  \/ ScriptVerifyAuthentication
  \/ ScriptResume
  \/ ScriptReturn
  \/ Tick

SpecAuth == InitAuth /\ [][NextAuth]_vars

(* The caller passes the stored record, counter 5, with an assertion that   *)
(* is valid apart from its counter.                                         *)
StoredFive ==
  /\ vin.stored = 5
  /\ vin.credential.id = "c1"
  /\ vin.credential.counter = 5
  /\ vin.response.id = "c1"
  /\ vin.response.challenge = vin.expectedChallenge
  /\ vin.response.signature.over = SignatureBase(vin.response)

(* C7: when verifyAuthentication returns verified = true with a store       *)
(* configured, the stored credential's counter is the presented new_counter *)
(* and its last-used time has been set; with stored counter 5, presenting 5 *)
(* fails with COUNTER_ERROR and leaves the stored counter at 5, and         *)
(* presenting 6 is accepted and leaves it at 6 (unless a storage operation  *)
(* rejects, and the call fails with the adapter's error).                   *)
C7_SuccessUpdatesStoredCredential ==
  (vout # Null /\ HasStorage) =>
    LET id == vin.credential.id IN
    /\ (vout.verified /\ id \in DOMAIN credentialsMap) =>
          /\ vout.newCounter = vin.response.authData.counter
          /\ credentialsMap[id].counter = vout.newCounter
          /\ credentialsMap[id].lastUsedAt >= 0
          /\ credentialsMap[id].lastUsedAt <= now
    /\ (StoredFive /\ vin.response.authData.counter = 5) =>
          /\ vout.thrown /\ vout.code = "COUNTER_ERROR"
          /\ credentialsMap["c1"].counter = 5
    /\ (StoredFive /\ vin.response.authData.counter = 6) =>
          \/ vout.verified /\ credentialsMap["c1"].counter = 6
          \/ vout = AdapterError

(* Stored counter 5, counter 6 presented: the call returned verified = true *)
(* and the store holds 6 and a last-used time.                              *)
C7_Witness ==
  /\ vout # Null
  /\ HasStorage
  /\ StoredFive
  /\ vout.verified
  /\ vout.newCounter = 6
  /\ credentialsMap["c1"].counter = 6
  /\ credentialsMap["c1"].lastUsedAt >= 0

(***************************************************************************)
(* SessionManager (session/manager.ts) and WebAuthnServer.cleanup.  Every  *)
(* call ends in the position "done" holding what it returns or throws; the *)
(* caller receives it in a later step (SReturn).  The debug logging is     *)
(* left out.                                                               *)
(***************************************************************************)
MaxSessions == 2     \* sessions created
MaxTokens == 2       \* tokens returned to callers

Users == {"u1", "u2"}

SThrow(code) ==
  [thrown |-> TRUE, code |-> code, valid |-> FALSE, sessionData |-> Null, sessionId |-> 0,
   token |-> Null]

SValue(valid, sessionData, sessionId, token) ==
  [thrown |-> FALSE, code |-> "ok", valid |-> valid, sessionData |-> sessionData,
   sessionId |-> sessionId, token |-> token]

(* a call of type Promise<void> that resolves *)
SVoid == SValue(FALSE, Null, 0, Null)

(* The expiry check of validateSession with <= in place of <. *)
TokenExpired_AtExpiry(data, t) == NewDate(data.expiresAt) <= t

(* The expiry check of validateSession on the data of the token. *)
TokenExpired(data, t) == NewDate(data.expiresAt) < t

(* The catch block of revokeSession rethrowing what it caught. *)
Swallowed_Rethrown(code) == SThrow(code)

(* The catch block of revokeSession: the error is dropped and the call resolves. *)
Swallowed(code) == SVoid

Extend(f, k, v) == [x \in (DOMAIN f) \cup {k} |-> IF x = k THEN v ELSE f[x]]

(* What has already happened to session sessionId when a call begins at t. *)
Late(sessionId, t) ==
  (IF sessionId \in history.revoked THEN {"revoked"} ELSE {})
  \cup (IF sessionId \in history.userRevoked THEN {"userRevoked"} ELSE {})
  \cup (IF sessionId \in DOMAIN history.expiry /\ history.expiry[sessionId] < t
          THEN {"expired"} ELSE {})

Finished(call, result, faulted) ==
  [call EXCEPT !.pc = "done", !.result = result, !.faulted = faulted]

(* createSession, up to the await of sessions.create; without a storage     *)
(* adapter the call builds the token at once.                               *)
CreateSession(p, userId, fault) ==
  /\ Constructed
  /\ scalls[p].pc = "idle"
  /\ history.nextSessionId <= MaxSessions
  /\ Cardinality(tokens) < MaxTokens
  /\ LET sessionId == history.nextSessionId
         expiresAt == DateOf(now + config.sessionDuration)
         sessionData == [userId |-> userId, credentialId |-> "c1", expiresAt |-> expiresAt,
                         userVerified |-> TRUE]
         call == [SIdle EXCEPT !.op = "createSession", !.userId = userId,
                               !.sessionId = sessionId, !.data = sessionData]
     IN IF HasStorage /\ fault
          THEN /\ scalls' = [scalls EXCEPT ![p] = Finished(call, SThrow("ADAPTER_ERROR"), TRUE)]
               /\ UNCHANGED <<sessionsMap, sessionsByUserId, history>>
          ELSE /\ history' = [history EXCEPT !.nextSessionId = @ + 1,
                                             !.owner = Extend(@, sessionId, userId),
                                             !.expiry = Extend(@, sessionId, NewDate(expiresAt))]
               /\ IF HasStorage
                    THEN LET w == sessions_create(sessionsMap, sessionsByUserId, sessionId,
                                                  sessionData)
                         IN /\ sessionsMap' = w.map
                            /\ sessionsByUserId' = w.index
                            /\ scalls' = [scalls EXCEPT ![p] =
                                            [call EXCEPT !.pc = "awaitSessionCreate"]]
                    ELSE /\ scalls' = [scalls EXCEPT ![p] =
                              Finished(call,
                                       SValue(FALSE, Null, sessionId,
                                              createSessionToken(sessionId, sessionData,
                                                                 ServerSecret, now)),
                                       FALSE)]
                         /\ UNCHANGED <<sessionsMap, sessionsByUserId>>
  /\ UNCHANGED <<rawConfig, ctor, config, now, challengesMap, credentialsMap, credentialsByUserId, calls, vin, vout,
                 tokens>>

(* createSession resumes after sessions.create and builds the token *)
ResumeCreateSession(p) ==
  /\ scalls[p].pc = "awaitSessionCreate"
  /\ scalls' = [scalls EXCEPT ![p] =
       Finished(scalls[p],
                SValue(FALSE, Null, scalls[p].sessionId,
                       createSessionToken(scalls[p].sessionId, scalls[p].data,
                                          ServerSecret, now)),
                FALSE)]
  /\ UNCHANGED <<rawConfig, ctor, config, now, challengesMap, credentialsMap, credentialsByUserId, calls, vin, vout,
                 sessionsMap, sessionsByUserId, tokens, history>>

(* validateSession, called by the caller (op "validateSession") or by       *)
(* refreshSession (op "refreshSession"), up to the await of sessions.find.  *)
(* A rejection of sessions.find is not a SessionError: the catch block      *)
(* turns it into {valid: false}, which refreshSession reports as            *)
(* INVALID_SESSION.                                                         *)
ValidateSession(p, op, token, fault) ==
  /\ Constructed
  /\ scalls[p].pc = "idle"
  /\ op = "refreshSession" => Cardinality(tokens) < MaxTokens
  /\ LET parsed == parseSessionToken(token, ServerSecret)
         call == [SIdle EXCEPT !.op = op, !.token = token, !.calledAt = now,
                               !.sessionId = parsed.sessionId,
                               !.late = Late(parsed.sessionId, now)]
     IN scalls' = [scalls EXCEPT ![p] =
          IF parsed.thrown THEN Finished(call, SThrow(parsed.code), FALSE)
          ELSE IF TokenExpired(parsed.data, now)
            THEN Finished(call, SThrow("SESSION_EXPIRED"), FALSE)
          ELSE IF HasStorage
            THEN IF fault
                   THEN IF op = "validateSession"
                          THEN Finished(call, SValue(FALSE, Null, 0, Null), TRUE)
                          ELSE Finished(call, SThrow("INVALID_SESSION"), TRUE)
                   ELSE [call EXCEPT !.pc = "awaitFind",
                                     !.found = sessions_find(sessionsMap, parsed.sessionId, now)]
          ELSE IF op = "validateSession"
            THEN Finished(call, SValue(TRUE, parsed.data, parsed.sessionId, Null), FALSE)
            ELSE [call EXCEPT !.pc = "awaitValidate", !.found = parsed.data]]
  /\ UNCHANGED <<rawConfig, ctor, config, now, challengesMap, credentialsMap, credentialsByUserId, calls, vin, vout,
                 sessionsMap, sessionsByUserId, tokens, history>>

(* validateSession resumes after sessions.find *)
ResumeValidate(p) ==
  /\ scalls[p].pc = "awaitFind"
  /\ scalls[p].op = "validateSession"
  /\ scalls' = [scalls EXCEPT ![p] =
       IF scalls[p].found = Null
         THEN Finished(scalls[p], SThrow("SESSION_NOT_FOUND"), FALSE)
         ELSE Finished(scalls[p], SValue(TRUE, scalls[p].found, scalls[p].sessionId, Null),
                       FALSE)]
  /\ UNCHANGED <<rawConfig, ctor, config, now, challengesMap, credentialsMap, credentialsByUserId, calls, vin, vout,
                 sessionsMap, sessionsByUserId, tokens, history>>

(* refreshSession resumes after validateSession, up to the await of         *)
(* sessions.update; without a storage adapter it builds the token at once.  *)
ResumeRefresh(p, fault) ==
  /\ scalls[p].pc \in {"awaitFind", "awaitValidate"}
  /\ scalls[p].op = "refreshSession"
  /\ LET call == scalls[p]
         sessionId == call.sessionId
         newExpiresAt == DateOf(now + config.sessionDuration)
         newSessionData == [call.found EXCEPT !.expiresAt = newExpiresAt]
     IN IF call.found = Null
          THEN /\ scalls' = [scalls EXCEPT ![p] =
                               Finished(call, SThrow("SESSION_NOT_FOUND"), FALSE)]
               /\ UNCHANGED <<sessionsMap, history>>
        ELSE IF HasStorage /\ fault
          THEN /\ scalls' = [scalls EXCEPT ![p] =
                               Finished(call, SThrow("ADAPTER_ERROR"), TRUE)]
               /\ UNCHANGED <<sessionsMap, history>>
        ELSE IF HasStorage
          THEN /\ sessionsMap' = sessions_update(sessionsMap, sessionId, newExpiresAt)
               /\ scalls' = [scalls EXCEPT ![p] =
                               [call EXCEPT !.pc = "awaitUpdate", !.data = newSessionData]]
               /\ history' = [history EXCEPT
                                !.expiry = Extend(@, sessionId, NewDate(newExpiresAt))]
          ELSE /\ scalls' = [scalls EXCEPT ![p] =
                    Finished([call EXCEPT !.data = newSessionData],
                             SValue(FALSE, Null, sessionId,
                                    createSessionToken(sessionId, newSessionData,
                                                       ServerSecret, now)),
                             FALSE)]
               /\ history' = [history EXCEPT
                                !.expiry = Extend(@, sessionId, NewDate(newExpiresAt))]
               /\ UNCHANGED sessionsMap
  /\ UNCHANGED <<rawConfig, ctor, config, now, challengesMap, credentialsMap, credentialsByUserId, calls, vin, vout,
                 sessionsByUserId, tokens>>

(* refreshSession resumes after sessions.update and builds the new token *)
ResumeRefreshToken(p) ==
  /\ scalls[p].pc = "awaitUpdate"
  /\ scalls' = [scalls EXCEPT ![p] =
       Finished(scalls[p],
                SValue(FALSE, Null, scalls[p].sessionId,
                       createSessionToken(scalls[p].sessionId, scalls[p].data,
                                          ServerSecret, now)),
                FALSE)]
  /\ UNCHANGED <<rawConfig, ctor, config, now, challengesMap, credentialsMap, credentialsByUserId, calls, vin, vout,
                 sessionsMap, sessionsByUserId, tokens, history>>

(* revokeSession, up to the await of sessions.delete *)
RevokeSession(p, token, fault) ==
  /\ Constructed
  /\ scalls[p].pc = "idle"
  /\ LET parsed == parseSessionToken(token, ServerSecret)
         call == [SIdle EXCEPT !.op = "revokeSession", !.token = token,
                               !.sessionId = parsed.sessionId]
     IN IF parsed.thrown
          THEN /\ scalls' = [scalls EXCEPT ![p] = Finished(call, Swallowed(parsed.code), FALSE)]
               /\ UNCHANGED <<sessionsMap, sessionsByUserId>>
        ELSE IF HasStorage /\ fault
          THEN /\ scalls' = [scalls EXCEPT ![p] =
                               Finished(call, Swallowed("ADAPTER_ERROR"), TRUE)]
               /\ UNCHANGED <<sessionsMap, sessionsByUserId>>
        ELSE IF HasStorage
          THEN LET w == sessions_delete(sessionsMap, sessionsByUserId, parsed.sessionId)
               IN /\ sessionsMap' = w.map
                  /\ sessionsByUserId' = w.index
                  /\ scalls' = [scalls EXCEPT ![p] = [call EXCEPT !.pc = "awaitSessionDelete"]]
          ELSE /\ scalls' = [scalls EXCEPT ![p] = Finished(call, SVoid, FALSE)]
               /\ UNCHANGED <<sessionsMap, sessionsByUserId>>
  /\ UNCHANGED <<rawConfig, ctor, config, now, challengesMap, credentialsMap, credentialsByUserId, calls, vin, vout,
                 tokens, history>>

(* revokeUserSessions, up to the await of sessions.deleteByUserId *)
RevokeUserSessions(p, userId, fault) ==
  /\ Constructed
  /\ scalls[p].pc = "idle"
  /\ LET call == [SIdle EXCEPT !.op = "revokeUserSessions", !.userId = userId,
                               !.covered = {s \in DOMAIN history.owner :
                                              history.owner[s] = userId}]
     IN IF ~HasStorage
          THEN /\ scalls' = [scalls EXCEPT ![p] =
                               Finished(call, SThrow("STORAGE_REQUIRED"), FALSE)]
               /\ UNCHANGED <<sessionsMap, sessionsByUserId>>
        ELSE IF fault
          THEN /\ scalls' = [scalls EXCEPT ![p] =
                               Finished(call, SThrow("ADAPTER_ERROR"), TRUE)]
               /\ UNCHANGED <<sessionsMap, sessionsByUserId>>
          ELSE LET w == sessions_deleteByUserId(sessionsMap, sessionsByUserId, userId)
               IN /\ sessionsMap' = w.map
                  /\ sessionsByUserId' = w.index
                  /\ scalls' = [scalls EXCEPT ![p] = [call EXCEPT !.pc = "awaitDeleteByUserId"]]
  /\ UNCHANGED <<rawConfig, ctor, config, now, challengesMap, credentialsMap, credentialsByUserId, calls, vin, vout,
                 tokens, history>>

(* revokeSession and revokeUserSessions resume after their delete *)
ResumeRevoke(p) ==
  /\ scalls[p].pc \in {"awaitSessionDelete", "awaitDeleteByUserId"}
  /\ scalls' = [scalls EXCEPT ![p] = Finished(scalls[p], SVoid, FALSE)]
  /\ UNCHANGED <<rawConfig, ctor, config, now, challengesMap, credentialsMap, credentialsByUserId, calls, vin, vout,
                 sessionsMap, sessionsByUserId, tokens, history>>

(* The position of sessions.deleteExpired when its loop has ended. *)
EndOfSessions == MaxSessions + 1

(* cleanup: challenges.deleteExpired runs to its end, then                  *)
(* cleanupExpiredSessions calls sessions.deleteExpired, which runs up to    *)
(* the await of its first delete.                                           *)
Cleanup(p) ==
  /\ Constructed
  /\ scalls[p].pc = "idle"
  /\ LET call == [SIdle EXCEPT !.op = "cleanup", !.calledAt = now] IN
     IF ~HasStorage
       THEN /\ scalls' = [scalls EXCEPT ![p] = Finished(call, SVoid, FALSE)]
            /\ UNCHANGED <<challengesMap, sessionsMap, sessionsByUserId>>
       ELSE /\ challengesMap' = challenges_deleteExpired(challengesMap, now)
            /\ IF ExpiredAfter(sessionsMap, 0, now) = {}
                 THEN /\ scalls' = [scalls EXCEPT ![p] =
                                      [call EXCEPT !.pc = "awaitSweep", !.cursor = EndOfSessions]]
                      /\ UNCHANGED <<sessionsMap, sessionsByUserId>>
                 ELSE LET sessionId == NextExpired(sessionsMap, 0, now)
                          w == sessions_delete(sessionsMap, sessionsByUserId, sessionId)
                      IN /\ sessionsMap' = w.map
                         /\ sessionsByUserId' = w.index
                         /\ scalls' = [scalls EXCEPT ![p] =
                                         [call EXCEPT !.pc = "awaitSweep", !.cursor = sessionId]]
  /\ UNCHANGED <<rawConfig, ctor, config, now, credentialsMap, credentialsByUserId, calls, vin, vout, tokens,
                 history>>

(* sessions.deleteExpired resumes after a delete and goes on to the next    *)
(* expired session; when there is none the loop ends and cleanup returns.   *)
SweepStep(p) ==
  /\ scalls[p].pc = "awaitSweep"
  /\ IF ExpiredAfter(sessionsMap, scalls[p].cursor, scalls[p].calledAt) = {}
       THEN /\ scalls' = [scalls EXCEPT ![p] = Finished(scalls[p], SVoid, FALSE)]
            /\ UNCHANGED <<sessionsMap, sessionsByUserId>>
       ELSE LET sessionId == NextExpired(sessionsMap, scalls[p].cursor, scalls[p].calledAt)
                w == sessions_delete(sessionsMap, sessionsByUserId, sessionId)
            IN /\ sessionsMap' = w.map
               /\ sessionsByUserId' = w.index
               /\ scalls' = [scalls EXCEPT ![p].cursor = sessionId]
  /\ UNCHANGED <<rawConfig, ctor, config, now, challengesMap, credentialsMap, credentialsByUserId, calls, vin, vout,
                 tokens, history>>

(* The caller receives what the call returned or threw. *)
SReturn(p) ==
  /\ scalls[p].pc = "done"
  /\ scalls' = [scalls EXCEPT ![p] = SIdle]
  /\ tokens' = IF scalls[p].result.token # Null THEN tokens \cup {scalls[p].result.token}
                                                ELSE tokens
  /\ history' =
       IF scalls[p].op = "revokeSession" /\ scalls[p].sessionId # 0
         THEN [history EXCEPT !.revoked = @ \cup {scalls[p].sessionId}]
       ELSE IF scalls[p].op = "revokeUserSessions" /\ ~scalls[p].result.thrown
         THEN [history EXCEPT !.userRevoked = @ \cup scalls[p].covered]
       ELSE history
  /\ UNCHANGED <<rawConfig, ctor, config, now, challengesMap, credentialsMap, credentialsByUserId, calls, vin, vout,
                 sessionsMap, sessionsByUserId>>

(***************************************************************************)
(* The sessions of one server: a caller creates, validates, refreshes and  *)
(* revokes sessions, one call at a time, while time passes between the     *)
(* steps of a call.                                                        *)
(***************************************************************************)
SessionCallers == {"a"}

SessionConfigs ==
  { c \in RawConfigs : /\ c.rpName /\ c.rpID /\ c.origin
                       /\ c.secretLen = 32 /\ c.challengeSize = 0 /\ c.timeout = 0
                       /\ c.sessionDuration = ShortSessionDuration
                       /\ c.userVerification = "" }

InitSession ==
  /\ rawConfig \in SessionConfigs
  /\ ctor = "constructed"
  /\ config = buildInternalConfig(rawConfig)
  /\ now = 0
  /\ challengesMap = EmptyMap
  /\ credentialsMap = [id \in StoredCredIds |-> [counter |-> 0, lastUsedAt |-> -1]]
  /\ credentialsByUserId = StoredIndex
  /\ calls = [p \in Calls |-> Idle]
  /\ vin = Null
  /\ vout = Null
  /\ NoSessions

(* The tokens a caller may present. *)
Presentable == tokens \cup {BadToken}

NextSession ==
  \/ \E p \in SessionCallers, fault \in BOOLEAN : CreateSession(p, "u1", fault)
  \/ \E p \in SessionCallers : ResumeCreateSession(p)
  \/ \E p \in SessionCallers, op \in {"validateSession", "refreshSession"}, t \in Presentable,
        fault \in BOOLEAN : ValidateSession(p, op, t, fault)
  \/ \E p \in SessionCallers : ResumeValidate(p)
  \/ \E p \in SessionCallers, fault \in BOOLEAN : ResumeRefresh(p, fault)
  \/ \E p \in SessionCallers : ResumeRefreshToken(p)
  \/ \E p \in SessionCallers, t \in Presentable, fault \in BOOLEAN : RevokeSession(p, t, fault)
  \/ \E p \in SessionCallers, u \in Users, fault \in BOOLEAN : RevokeUserSessions(p, u, fault)
  \/ \E p \in SessionCallers : ResumeRevoke(p)
  \/ \E p \in SessionCallers : SReturn(p)
  \/ Tick

SpecSession == InitSession /\ [][NextSession]_vars

(***************************************************************************)
(* Properties of the sessions.                                             *)
(***************************************************************************)
(* The call ended and did not throw; a validateSession reported valid.      *)
Succeeded(c) ==
  /\ c.pc = "done"
  /\ ~c.result.thrown
  /\ c.op = "validateSession" => c.result.valid

(* Caller p's call ends in this step. *)
Ends(p) == scalls[p].pc # "done" /\ scalls'[p].pc = "done"

(* C12: revoked and expired are terminal: a validateSession or              *)
(* refreshSession call that begins after revokeSession has returned for the *)
(* session of its token, or after the session's latest expiry has passed,   *)
(* does not succeed.                                                        *)
C12_RevokedAndExpiredAreTerminal ==
  \A p \in Calls :
    (/\ scalls[p].pc = "done"
     /\ scalls[p].op \in {"validateSession", "refreshSession"}
     /\ scalls[p].late \cap {"revoked", "expired"} # {})
      => ~Succeeded(scalls[p])

(* C13: validateSession on a token that opens (sessions.find not rejecting) *)
(* fails with SESSION_EXPIRED when the expiresAt in the token is before the *)
(* time of the call; otherwise, with a session store, it fails with         *)
(* SESSION_NOT_FOUND when sessions.find returned null; otherwise it returns *)
(* valid, with the stored session when there is a store (not the copy in    *)
(* the token) and with the token's copy when there is none.                 *)
C13_ValidateSession ==
  \A p \in Calls :
    LET c == scalls[p]
        parsed == parseSessionToken(c.token, ServerSecret)
    IN (c.pc = "done" /\ c.op = "validateSession" /\ ~c.faulted /\ ~parsed.thrown) =>
         IF parsed.data.expiresAt.ms < c.calledAt
           THEN c.result.thrown /\ c.result.code = "SESSION_EXPIRED"
         ELSE IF HasStorage /\ c.found = Null
           THEN c.result.thrown /\ c.result.code = "SESSION_NOT_FOUND"
         ELSE IF HasStorage
           THEN /\ ~c.result.thrown /\ c.result.valid
                /\ c.result.sessionId = parsed.sessionId
                /\ c.result.sessionData = c.found
                /\ c.result.sessionData.expiresAt.kind = "Date"
                /\ parsed.sessionId \in DOMAIN sessionsMap
                     => c.result.sessionData = sessionsMap[parsed.sessionId]
           ELSE /\ ~c.result.thrown /\ c.result.valid
                /\ c.result.sessionId = parsed.sessionId
                /\ c.result.sessionData = parsed.data

(* validateSession of a stale token returned the stored session, whose       *)
(* expiry a refresh had moved past the one in the token.                    *)
C13_Witness ==
  \E p \in Calls :
    /\ Succeeded(scalls[p])
    /\ scalls[p].op = "validateSession"
    /\ HasStorage
    /\ scalls[p].result.sessionData.expiresAt.ms > scalls[p].token.payload.data.expiresAt.ms

C14_StorageFaultFailsTheCall ==
  \A p \in Calls :
    (scalls[p].pc = "done" /\ scalls[p].faulted /\ scalls[p].op # "revokeSession")
      => (scalls[p].result.thrown /\ scalls[p].result.code = "ADAPTER_ERROR")

(* C15: refreshSession on a valid session sets the stored session's         *)
(* expiresAt to now + sessionDuration and returns a token of the same       *)
(* session id with that same expiresAt; a refreshSession that fails has     *)
(* changed no stored session, and it fails only on a token that does not    *)
(* open, an expired token, an unknown session or a storage failure.         *)
C15_RefreshSession ==
  [][\A p \in Calls :
       LET c == scalls[p]
           d == scalls'[p]
           e == now + config.sessionDuration
       IN
       /\ (c.op = "refreshSession" /\ c.pc = "awaitFind" /\ d.pc = "awaitUpdate") =>
             /\ c.found # Null
             /\ d.data.expiresAt = DateOf(e)
             /\ DOMAIN sessionsMap' = DOMAIN sessionsMap
             /\ \A s \in DOMAIN sessionsMap :
                  sessionsMap'[s] = IF s = c.sessionId
                                      THEN [sessionsMap[s] EXCEPT !.expiresAt = DateOf(e)]
                                      ELSE sessionsMap[s]
             /\ c.sessionId \in DOMAIN sessionsMap
       /\ (c.op = "refreshSession" /\ c.pc = "awaitFind" /\ c.found # Null /\ d.pc = "done") =>
             d.faulted
       /\ (Ends(p) /\ d.op = "refreshSession" /\ ~d.result.thrown) =>
             LET t == parseSessionToken(d.result.token, ServerSecret)
                 old == parseSessionToken(d.token, ServerSecret)
             IN /\ ~t.thrown /\ ~old.thrown
                /\ t.sessionId = old.sessionId
                /\ t.data.expiresAt.ms = d.data.expiresAt.ms
                /\ ~HasStorage => t.data.expiresAt.ms = e
                /\ (HasStorage /\ t.sessionId \in DOMAIN sessionsMap')
                     => sessionsMap'[t.sessionId].expiresAt.ms = t.data.expiresAt.ms
       /\ (Ends(p) /\ d.op = "refreshSession" /\ d.result.thrown) =>
             /\ sessionsMap' = sessionsMap
             /\ sessionsByUserId' = sessionsByUserId
             /\ c.pc # "awaitUpdate"
             /\ \/ d.faulted
                \/ d.result.code \in {"INVALID_TOKEN", "SESSION_EXPIRED", "SESSION_NOT_FOUND"}]_vars

(* A refresh made after time has passed returned a token whose expiry is    *)
(* the stored session's new expiry, later than the old token's.             *)
C15_Witness ==
  \E p \in Calls :
    /\ Succeeded(scalls[p])
    /\ scalls[p].op = "refreshSession"
    /\ HasStorage
    /\ scalls[p].sessionId \in DOMAIN sessionsMap
    /\ sessionsMap[scalls[p].sessionId].expiresAt.ms
         = scalls[p].result.token.payload.data.expiresAt.ms
    /\ scalls[p].result.token.payload.data.expiresAt.ms
         > scalls[p].token.payload.data.expiresAt.ms

(* C16: revokeSession never throws, whatever the token and whether or not   *)
(* sessions.delete rejects; given a token that does not open it changes no  *)
(* stored session.                                                          *)
C16_RevokeNeverRaises ==
  [][\A p \in Calls :
       (scalls'[p].op = "revokeSession") =>
          /\ scalls'[p].result # Null => ~scalls'[p].result.thrown
          /\ parseSessionToken(scalls'[p].token, ServerSecret).thrown =>
               /\ sessionsMap' = sessionsMap
               /\ sessionsByUserId' = sessionsByUserId]_vars

(* revokeSession of a string that is not a token resolved, with sessions in *)
(* the store.                                                               *)
C16_Witness ==
  \E p \in Calls :
    /\ scalls[p].pc = "done"
    /\ scalls[p].op = "revokeSession"
    /\ scalls[p].token = BadToken
    /\ ~scalls[p].result.thrown
    /\ HasStorage
    /\ sessionsMap # EmptyMap

(***************************************************************************)
(* The sessions of two users: a caller creates sessions for either user,   *)
(* validates their tokens and revokes the sessions of a user.              *)
(***************************************************************************)
NextUsers ==
  \/ \E p \in SessionCallers, u \in Users : CreateSession(p, u, FALSE)
  \/ \E p \in SessionCallers : ResumeCreateSession(p)
  \/ \E p \in SessionCallers, t \in Presentable : ValidateSession(p, "validateSession", t, FALSE)
  \/ \E p \in SessionCallers : ResumeValidate(p)
  \/ \E p \in SessionCallers, u \in Users, fault \in BOOLEAN : RevokeUserSessions(p, u, fault)
  \/ \E p \in SessionCallers : ResumeRevoke(p)
  \/ \E p \in SessionCallers : SReturn(p)
  \/ Tick

SpecUsers == InitSession /\ [][NextUsers]_vars

InitCleanup ==
  /\ rawConfig \in SessionConfigs
  /\ ctor = "constructed"
  /\ config = buildInternalConfig(rawConfig)
  /\ now = 0
  /\ challengesMap = EmptyMap
  /\ credentialsMap = [id \in StoredCredIds |-> [counter |-> 0, lastUsedAt |-> -1]]
  /\ credentialsByUserId = StoredIndex
  /\ calls = [p \in Calls |-> Idle]
  /\ vin = Null
  /\ vout = Null
  /\ NoSessions

NextCleanup ==
  \/ \E p \in SessionCallers, u \in Users :
        CreateSession(p, u, FALSE) /\ calls[p].pc = "idle"
  \/ \E p \in SessionCallers : ResumeCreateSession(p)
  \/ \E p \in SessionCallers : Cleanup(p) /\ calls[p].pc = "idle"
  \/ \E p \in SessionCallers : SweepStep(p)
  \/ \E p \in SessionCallers : SReturn(p)
  \/ \E p \in SessionCallers, op \in {"createRegistrationOptions", "createAuthenticationOptions"},
        ch \in Challenges :
        /\ CreateOptions(p, op, ch, 0, FALSE)
        /\ scalls[p].pc = "idle"
        /\ UNCHANGED <<vin, vout, sessionVars>>
  \/ \E p \in SessionCallers : Return(p) /\ UNCHANGED <<vin, vout, sessionVars>>
  \/ Tick

SpecCleanup == InitCleanup /\ [][NextCleanup]_vars

(* C18: cleanup removes from the store exactly the challenges and sessions  *)
(* whose expiresAt is at or before now: the challenges in its first step,   *)
(* the sessions one per step, each expired when it is removed, none that    *)
(* was expired when cleanup was called being left when it returns; every    *)
(* unexpired challenge and session stays as it was and is still found.      *)
C18_CleanupRemovesExactlyExpired ==
  [][\A p \in Calls :
       LET c == scalls[p]
           d == scalls'[p]
       IN
       /\ (c.pc = "idle" /\ d.op = "cleanup" /\ HasStorage) =>
            /\ DOMAIN challengesMap' = {x \in DOMAIN challengesMap :
                                          challengesMap[x].expiresAt > now}
            /\ \A x \in DOMAIN challengesMap' :
                 /\ challengesMap'[x] = challengesMap[x]
                 /\ challenges_find(challengesMap', x, now) = challengesMap[x]
       /\ (d.op = "cleanup" /\ c.pc \in {"idle", "awaitSweep"}) =>
            /\ DOMAIN sessionsMap' \subseteq DOMAIN sessionsMap
            /\ \A s \in DOMAIN sessionsMap :
                 IF s \in DOMAIN sessionsMap'
                   THEN sessionsMap'[s] = sessionsMap[s]
                   ELSE sessionsMap[s].expiresAt.ms <= now
            /\ \A s \in DOMAIN sessionsMap :
                 sessionsMap[s].expiresAt.ms > now =>
                   sessions_find(sessionsMap', s, now) = sessionsMap[s]
       /\ (d.op = "cleanup" /\ c.pc = "awaitSweep" /\ d.pc = "done") =>
            /\ \A s \in DOMAIN sessionsMap' : sessionsMap'[s].expiresAt.ms > d.calledAt
            /\ \A x \in DOMAIN challengesMap' : challengesMap'[x].expiresAt > d.calledAt]_vars

(* cleanup has returned: a session that had been created is gone, and a     *)
(* session and a challenge that are not expired are still in the store.     *)
C18_Witness ==
  \E p \in Calls :
    /\ scalls[p].pc = "done"
    /\ scalls[p].op = "cleanup"
    /\ \E s \in DOMAIN history.owner : s \notin DOMAIN sessionsMap
    /\ \E s \in DOMAIN sessionsMap : sessions_find(sessionsMap, s, now) # Null
    /\ \E x \in DOMAIN challengesMap : challenges_find(challengesMap, x, now) # Null

(***************************************************************************)
(* The in-memory adapter used directly: an application creates challenges  *)
(* and sessions with expiry times of its choice, looks them up as time     *)
(* passes, and sweeps the challenges.  vin is the last lookup and vout     *)
(* what it returned.                                                       *)
(***************************************************************************)
ExpiryTimes == {k * TickMs : k \in 0..MaxTicks}

InitAdapter ==
  /\ rawConfig \in {c \in SessionConfigs : c.storageAdapter}
  /\ ctor = "pending"
  /\ config = Null
  /\ now = 0
  /\ challengesMap = EmptyMap
  /\ credentialsMap = [id \in StoredCredIds |-> [counter |-> 0, lastUsedAt |-> -1]]
  /\ credentialsByUserId = StoredIndex
  /\ calls = [p \in Calls |-> Idle]
  /\ vin = Null
  /\ vout = Null
  /\ NoSessions

AdapterCreateChallenge(challenge, expiresAt) ==
  /\ challengesMap' = challenges_create(challengesMap,
                        [challenge |-> challenge, operation |-> "authentication",
                         createdAt |-> now, expiresAt |-> expiresAt])
  /\ UNCHANGED <<rawConfig, ctor, config, now, credentialsMap, credentialsByUserId, calls, vin, vout, sessionVars>>

AdapterCreateSession(sessionId, expiresAt) ==
  /\ sessionId \notin DOMAIN sessionsMap
  /\ LET w == sessions_create(sessionsMap, sessionsByUserId, sessionId,
                              [userId |-> "u1", credentialId |-> "c1",
                               expiresAt |-> expiresAt, userVerified |-> TRUE])
     IN /\ sessionsMap' = w.map
        /\ sessionsByUserId' = w.index
  /\ UNCHANGED <<rawConfig, ctor, config, now, challengesMap, credentialsMap, credentialsByUserId, calls, vin, vout,
                 scalls, tokens, history>>

AdapterFindChallenge(challenge) ==
  /\ vin' = [store |-> "challenges", key |-> challenge, at |-> now]
  /\ vout' = challenges_find(challengesMap, challenge, now)
  /\ UNCHANGED <<rawConfig, ctor, config, now, challengesMap, credentialsMap, credentialsByUserId, calls,
                 sessionVars>>

AdapterFindSession(sessionId) ==
  /\ vin' = [store |-> "sessions", key |-> sessionId, at |-> now]
  /\ vout' = sessions_find(sessionsMap, sessionId, now)
  /\ UNCHANGED <<rawConfig, ctor, config, now, challengesMap, credentialsMap, credentialsByUserId, calls,
                 sessionVars>>

AdapterDeleteExpiredChallenges ==
  /\ challengesMap' = challenges_deleteExpired(challengesMap, now)
  /\ UNCHANGED <<rawConfig, ctor, config, now, credentialsMap, credentialsByUserId, calls, vin, vout, sessionVars>>

NextAdapter ==
  \/ \E ch \in GeneratedChallenges, e \in ExpiryTimes : AdapterCreateChallenge(ch, e)
  \/ \E id \in 1..MaxSessions, e \in ExpiryTimes, k \in {"Date", "string"} :
        AdapterCreateSession(id, [kind |-> k, ms |-> e])
  \/ \E ch \in Challenges : AdapterFindChallenge(ch)
  \/ \E id \in 1..MaxSessions : AdapterFindSession(id)
  \/ AdapterDeleteExpiredChallenges
  \/ Tick

SpecAdapter == InitAdapter /\ [][NextAdapter]_vars

(* C19: in the in-memory adapter, challenges.find and sessions.find never   *)
(* return a record whose expiresAt is at or before the time of the lookup,  *)
(* whether or not the record is still in the map.                           *)
C19_FindNeverReturnsExpired ==
  (vin # Null /\ vout # Null) =>
    IF vin.store = "challenges"
      THEN vout.expiresAt > vin.at
      ELSE vout.expiresAt.ms > vin.at

(* A session looked up at the instant of its expiry, still in the map, was  *)
(* not returned.                                                            *)
C19_Witness ==
  /\ vin # Null
  /\ vin.store = "sessions"
  /\ vin.at = now
  /\ vin.key \in DOMAIN sessionsMap
  /\ sessionsMap[vin.key].expiresAt.ms = now
  /\ vout = Null

(***************************************************************************)
(* The token codec on its own: a session is sealed under one secret and    *)
(* the token opened with the same or with another secret.  vin holds the   *)
(* inputs; vout the token, then what opening it returned.                  *)
(***************************************************************************)
(* The longest token string: the Base64URL of the longest JSON text. *)
MaxTokenLength == ((8 * (MaxSessions + 2)) + 5) \div 6

SessionDatas ==
  { [userId |-> u, credentialId |-> "c1", expiresAt |-> e, userVerified |-> uv]
    : u \in Users, uv \in BOOLEAN,
      e \in {Absent} \cup {[kind |-> k, ms |-> t] : k \in {"Date", "string"},
                                                    t \in ExpiryTimes} }

TokenInputs ==
  [sessionId : 1..MaxSessions, data : SessionDatas, secret : {ServerSecret, OtherSecret},
   openWith : {ServerSecret, OtherSecret}]

InitToken ==
  /\ rawConfig \in {c \in SessionConfigs : ~c.storageAdapter}
  /\ ctor = "pending"
  /\ config = Null
  /\ now = 0
  /\ challengesMap = EmptyMap
  /\ credentialsMap = [id \in StoredCredIds |-> [counter |-> 0, lastUsedAt |-> -1]]
  /\ credentialsByUserId = StoredIndex
  /\ calls = [p \in Calls |-> Idle]
  /\ vin \in TokenInputs
  /\ vout = Null
  /\ NoSessions

Seal ==
  /\ vout = Null
  /\ vout' = [token |-> createSessionToken(vin.sessionId, vin.data, vin.secret, now),
              tampered |-> 0, opened |-> Null]
  /\ UNCHANGED <<rawConfig, ctor, config, now, challengesMap, credentialsMap, credentialsByUserId, calls, vin,
                 sessionVars>>

(* The Base64URL character whose six bits are those of c with bit b flipped. *)
FlipBit(c, b) ==
  LET v == Sextet(IF c = "-" THEN "+" ELSE IF c = "_" THEN "/" ELSE c)
      w == IF (v \div Pow2(b)) % 2 = 1 THEN v - Pow2(b) ELSE v + Pow2(b)
  IN bufferToBase64URL(<<0, 0, w>>)[4]

(* The holder of a token changes one bit of one of its characters. *)
Tamper(i, b) ==
  /\ vout # Null
  /\ vout.opened = Null
  /\ vout.tampered = 0
  /\ i \in 1..Len(vout.token.text)
  /\ vout' = [vout EXCEPT !.token.text[i] = FlipBit(@, b), !.tampered = i]
  /\ UNCHANGED <<rawConfig, ctor, config, now, challengesMap, credentialsMap, credentialsByUserId, calls, vin,
                 sessionVars>>

Open ==
  /\ vout # Null
  /\ vout.opened = Null
  /\ vout' = [vout EXCEPT !.opened = parseSessionToken(vout.token, vin.openWith)]
  /\ UNCHANGED <<rawConfig, ctor, config, now, challengesMap, credentialsMap, credentialsByUserId, calls, vin,
                 sessionVars>>

NextToken ==
  \/ Seal
  \/ \E i \in 1..MaxTokenLength, b \in 0..5 : Tamper(i, b)
  \/ Open
  \/ Tick

SpecToken == InitToken /\ [][NextToken]_vars

(* C20: for every session id, session data and secret, opening a sealed     *)
(* token with the same secret returns the session id and the session data   *)
(* that were sealed.                                                        *)
C20_RoundTrip ==
  (vout # Null /\ vout.opened # Null /\ vin.openWith = vin.secret /\ vout.tampered = 0) =>
    /\ ~vout.opened.thrown
    /\ vout.opened.sessionId = vin.sessionId
    /\ vout.opened.data = vin.data

(* C21: opening a sealed token with a secret other than the one it was      *)
(* sealed with, or opening a token obtained from it by changing one bit of  *)
(* one character (the last character included), fails with INVALID_TOKEN.   *)
C21_TamperedOrWrongSecretFails ==
  (vout # Null /\ vout.opened # Null
     /\ (vin.openWith # vin.secret \/ vout.tampered # 0)) =>
    /\ vout.opened.thrown
    /\ vout.opened.code = "INVALID_TOKEN"

(***************************************************************************)
(* The Base64URL helpers applied to strings a caller may pass.             *)
(***************************************************************************)
MaxStringLength == 4

(* Characters of the Base64URL alphabet, and one that is not. *)
UrlChars == {"A", "B", "Q", "_", "-"}

StringChars == UrlChars \cup {"!"}

Strings == UNION { [1..n -> StringChars] : n \in 0..MaxStringLength }

Base64Start == [stage |-> "start", checked |-> FALSE, valid |-> FALSE, buffer |-> <<>>,
                text |-> <<>>]

InitBase64 ==
  /\ rawConfig \in {c \in SessionConfigs : ~c.storageAdapter}
  /\ ctor = "pending"
  /\ config = Null
  /\ now = 0
  /\ challengesMap = EmptyMap
  /\ credentialsMap = [id \in StoredCredIds |-> [counter |-> 0, lastUsedAt |-> -1]]
  /\ credentialsByUserId = StoredIndex
  /\ calls = [p \in Calls |-> Idle]
  /\ vin \in { [str |-> s] : s \in Strings }
  /\ vout = Base64Start
  /\ NoSessions

ApplyIsBase64URL ==
  /\ ~vout.checked
  /\ vout' = [vout EXCEPT !.checked = TRUE, !.valid = isBase64URL(vin.str)]
  /\ UNCHANGED <<rawConfig, ctor, config, now, challengesMap, credentialsMap, credentialsByUserId, calls, vin,
                 sessionVars>>

(* base64URLToBuffer of a string over the alphabet. *)
ApplyBase64URLToBuffer ==
  /\ vout.stage = "start"
  /\ \A i \in 1..Len(vin.str) : vin.str[i] \in UrlChars
  /\ vout' = [vout EXCEPT !.stage = "decoded", !.buffer = base64URLToBuffer(vin.str)]
  /\ UNCHANGED <<rawConfig, ctor, config, now, challengesMap, credentialsMap, credentialsByUserId, calls, vin,
                 sessionVars>>

(* bufferToBase64URL of the decoded bytes. *)
ApplyBufferToBase64URL ==
  /\ vout.stage = "decoded"
  /\ vout' = [vout EXCEPT !.stage = "encoded", !.text = bufferToBase64URL(vout.buffer)]
  /\ UNCHANGED <<rawConfig, ctor, config, now, challengesMap, credentialsMap, credentialsByUserId, calls, vin,
                 sessionVars>>

NextBase64 == ApplyIsBase64URL \/ ApplyBase64URLToBuffer \/ ApplyBufferToBase64URL

SpecBase64 == InitBase64 /\ [][NextBase64]_vars

(* C29 as stated: decoding any string over the alphabet and encoding the   *)
(* bytes again gives the string back.                                      *)
C29_DecodeEncodeRoundTrip ==
  vout.stage = "encoded" => vout.text = vin.str

(* C29: decoding a string over the alphabet and encoding the bytes again   *)
(* gives the string back when the string is the encoding of some bytes:    *)
(* its length is not 1 modulo 4 and the bits of its last character that    *)
(* fall outside the last whole byte are zero.                              *)
C29_CanonicalDecodeEncodeRoundTrip ==
  LET s == vin.str
      last == Sextet(IF s[Len(s)] = "-" THEN "+" ELSE IF s[Len(s)] = "_" THEN "/" ELSE s[Len(s)])
      canonical == /\ Len(s) % 4 # 1
                   /\ Len(s) % 4 = 2 => last % 16 = 0
                   /\ Len(s) % 4 = 3 => last % 4 = 0
  IN (vout.stage = "encoded" /\ canonical) => vout.text = vin.str

C29_Witness ==
  /\ vout.stage = "encoded"
  /\ vin.str = <<"-", "_", "Q">>
  /\ vout.buffer = <<251, 244>>
  /\ vout.text = vin.str

(* C30: isBase64URL(s) is true exactly when every character of s is in the *)
(* alphabet, the empty string included.                                    *)
C30_IsBase64URLExact ==
  vout.checked =>
    (vout.valid <=> \A i \in 1..Len(vin.str) : vin.str[i] \in UrlChars)

(***************************************************************************)
(* The signature counter: bufferToNumber of bytes 33 to 36 of authData.    *)
(***************************************************************************)
CounterBytes == {0, 1, 127, 128, 255}

(* bufferToNumber: num = (num << 8) | buffer[i] on 32-bit signed integers.  *)
(* The shift keeps the low 24 bits of num; bit 23 becomes the sign.         *)
bufferToNumber(buffer) ==
  LET ShiftLeft8(num) ==
        LET m == num % 16777216
            low == m % 8388608
        IN IF m >= 8388608 THEN (low * 256 - 2147483647) - 1 ELSE low * 256
      RECURSIVE Fold(_, _)
      Fold(num, i) == IF i > Len(buffer) THEN num
                      ELSE Fold(ShiftLeft8(num) + buffer[i], i + 1)
  IN Fold(0, 1)

InitCounter ==
  /\ rawConfig \in {c \in SessionConfigs : ~c.storageAdapter}
  /\ ctor = "pending"
  /\ config = Null
  /\ now = 0
  /\ challengesMap = EmptyMap
  /\ credentialsMap = [id \in StoredCredIds |-> [counter |-> 0, lastUsedAt |-> -1]]
  /\ credentialsByUserId = StoredIndex
  /\ calls = [p \in Calls |-> Idle]
  /\ vin \in { [bytes |-> <<b1, b2, b3, b4>>] : b1 \in CounterBytes, b2 \in CounterBytes,
                                                b3 \in CounterBytes, b4 \in CounterBytes }
  /\ vout = Null
  /\ NoSessions

ParseCounter ==
  /\ vout = Null
  /\ vout' = [counter |-> bufferToNumber(vin.bytes)]
  /\ UNCHANGED <<rawConfig, ctor, config, now, challengesMap, credentialsMap, credentialsByUserId, calls, vin,
                 sessionVars>>

NextCounter == ParseCounter

SpecCounter == InitCounter /\ [][NextCounter]_vars

(* C26: the parsed counter is the unsigned 32-bit big-endian value of the  *)
(* four bytes: it is not negative, its top byte is the first byte and its  *)
(* low 24 bits are the other three.                                        *)
C26_CounterIsUnsignedBigEndian ==
  vout # Null =>
    /\ vout.counter >= 0
    /\ vout.counter \div 16777216 = vin.bytes[1]
    /\ vout.counter % 16777216 = vin.bytes[2] * 65536 + vin.bytes[3] * 256 + vin.bytes[4]


(***************************************************************************)
(* verifyRegistrationResponse applied to every attestation of a family     *)
(* that can be wrong at any of its steps, and at several at once.          *)
(***************************************************************************)
RsaKey == CborMap(RSA, RS256, 0, Undefined, Undefined, KeyBytes(64, "kp1"), KeyBytes(3, "kp1"))

Ed25519Key == CborMap(OKP, EdDSA, Ed25519, KeyBytes(32, "kp1"), Undefined, Undefined, Undefined)

(* Key bytes an authenticator may embed: the three variants, an EC2 key     *)
(* without its y coordinate and bytes that are not CBOR.                    *)
EmbeddedKeys ==
  { <<Es256Key>>, <<RsaKey>>, <<Ed25519Key>>, <<[Es256Key EXCEPT !.y = Undefined]>>,
    <<MalformedCbor>> }

(* authData lengths: short of the fixed part, of the attested header, of    *)
(* the credential id, and complete.                                         *)
RegAuthLengths ==
  { MinAuthDataLength - 1, MinAuthDataLength + AttestedHeaderLength - 1,
    MinAuthDataLength + AttestedHeaderLength + 15, AttestedLength }

(* authData of an attestation.  With AT clear nothing follows the counter;  *)
(* with ED set a map of extensions follows the key.                         *)
RegAuthData(rp, len, at, ed, up, uv, key) ==
  [AuthData(rp, 0) EXCEPT !.len = len, !.at = at, !.ed = ed, !.up = up, !.uv = uv,
     !.credentialIdLength = IF at THEN 16 ELSE 0,
     !.credentialId = IF at THEN "c2" ELSE None,
     !.credentialPublicKey = IF ~at THEN <<>>
                             ELSE IF ed THEN key \o <<ExtensionMap>> ELSE key]

RegisterInputs ==
  { [response |->
       [id |-> "c2", jsonOk |-> TRUE, type |-> type, challenge |-> ch, origin |-> o,
        cborOk |-> cbor, signature |-> Signature(None, "", "", <<>>),
        authData |-> RegAuthData(rp, len, at, ed, up, uv, key)],
     expectedChallenge |-> "ch1",
     expectedOrigin |-> ConfigOrigin,
     expectedRPID |-> rpIds,
     requireUserVerification |-> ruv]
    : type \in {"webauthn.create", "webauthn.get"}, ch \in Challenges,
      o \in {Origin, OtherOrigin}, cbor \in BOOLEAN, rp \in {RpId, OtherRpId},
      len \in RegAuthLengths, at \in BOOLEAN, ed \in BOOLEAN, up \in BOOLEAN,
      uv \in BOOLEAN, key \in EmbeddedKeys, rpIds \in {<<RpId>>, <<OtherRpId, RpId>>},
      ruv \in BOOLEAN }

InitRegister ==
  /\ rawConfig \in {c \in CeremonyConfigs : ~c.storageAdapter}
  /\ ctor = "constructed"
  /\ config = buildInternalConfig(rawConfig)
  /\ now = 0
  /\ challengesMap = EmptyMap
  /\ credentialsMap = [id \in StoredCredIds |-> [counter |-> 0, lastUsedAt |-> -1]]
  /\ credentialsByUserId = StoredIndex
  /\ calls = [p \in Calls |-> Idle]
  /\ vin \in RegisterInputs
  /\ vout = Null
  /\ NoSessions

ApplyVerifyRegistration ==
  /\ vout = Null
  /\ vout' = verifyRegistrationResponse(config, vin)
  /\ UNCHANGED <<rawConfig, ctor, config, now, challengesMap, credentialsMap, credentialsByUserId, calls, vin,
                 sessionVars>>

NextRegister == ApplyVerifyRegistration

SpecRegister == InitRegister /\ [][NextRegister]_vars

(* C22: verifyRegistrationResponse raises the error of the first step that  *)
(* fails, in the order type, challenge, origin, attestation decode, RP-ID   *)
(* hash, flags, attested credential data, COSE key.                         *)
C22_RegistrationFirstFailureWins ==
  vout # Null =>
    LET r == vin.response
        a == r.authData
        typeOk == r.type = "webauthn.create"
        challengeOk == r.challenge = vin.expectedChallenge
        originOk == r.origin \in vin.expectedOrigin
        decodeOk == /\ r.cborOk
                    /\ a.len >= 37
                    /\ a.at => a.len >= 37 + 18 + a.credentialIdLength
        rpIdOk == \E i \in 1..Len(vin.expectedRPID) : a.rpIdHash = sha256(vin.expectedRPID[i])
        flagsOk == a.up /\ (vin.requireUserVerification => a.uv)
    IN
    /\ ~typeOk => vout.code = "INVALID_CLIENT_DATA_TYPE"
    /\ (typeOk /\ ~challengeOk) => vout.code = "CHALLENGE_MISMATCH"
    /\ (typeOk /\ challengeOk /\ ~originOk) => vout.code = "ORIGIN_MISMATCH"
    /\ (typeOk /\ challengeOk /\ originOk /\ ~decodeOk) =>
         vout.code \in {"CBOR_DECODE_ERROR", "AUTHENTICATOR_DATA_TOO_SHORT",
                        "AUTHENTICATOR_DATA_INVALID_CREDENTIAL_DATA",
                        "AUTHENTICATOR_DATA_INVALID_CREDENTIAL_ID"}
    /\ (typeOk /\ challengeOk /\ originOk /\ decodeOk /\ ~rpIdOk) =>
         vout.code = "RPID_MISMATCH"
    /\ (typeOk /\ challengeOk /\ originOk /\ decodeOk /\ rpIdOk /\ ~flagsOk) =>
         vout.code = IF ~a.up THEN "USER_PRESENCE_REQUIRED" ELSE "USER_VERIFICATION_REQUIRED"
    /\ (typeOk /\ challengeOk /\ originOk /\ decodeOk /\ rpIdOk /\ flagsOk /\ ~a.at) =>
         vout.code = "MISSING_CREDENTIAL_DATA"
    /\ (typeOk /\ challengeOk /\ originOk /\ decodeOk /\ rpIdOk /\ flagsOk /\ a.at) =>
         \/ vout.verified
         \/ vout.code \in {"COSE_DECODE_ERROR", "COSE_EC2_INVALID"}

(* An attestation wrong at every step but the client-data type is rejected  *)
(* for its challenge.                                                       *)
C22_Witness ==
  /\ vout # Null
  /\ vin.response.type = "webauthn.create"
  /\ vin.response.challenge # vin.expectedChallenge
  /\ vin.response.origin = OtherOrigin
  /\ ~vin.response.cborOk
  /\ vin.response.authData.rpIdHash = sha256(OtherRpId)
  /\ vin.expectedRPID = <<RpId>>
  /\ ~vin.response.authData.up
  /\ ~vin.response.authData.at
  /\ vout.thrown
  /\ vout.code = "CHALLENGE_MISMATCH"

(* C24: the RP ID of a successful registration result is the expected RP   *)
(* ID whose hash is authData's.                                            *)
C24_ReportsMatchedRpId ==
  (vout # Null /\ vout.verified) =>
    vin.response.authData.rpIdHash = sha256(vout.rpID)

SignatureCopies == {"verify.ts", "later"}

(* Parsed keys: good ones of the three variants, keys whose material the    *)
(* crypto library cannot import, and keys of an algorithm that is unknown,  *)
(* unsupported or not of the key's type.                                    *)
SignatureKeys ==
  { Es256Key, RsaKey, Ed25519Key,
    [Es256Key EXCEPT !.x = KeyBytes(31, "kp1")],
    [Es256Key EXCEPT !.x = KeyBytes(32, "junk")],
    [RsaKey EXCEPT !.n = KeyBytes(256, "kp1")],
    [Ed25519Key EXCEPT !.x = KeyBytes(31, "kp1")],
    [Ed25519Key EXCEPT !.alg = ES256],
    [Es256Key EXCEPT !.alg = 0, !.crv = Ed25519],
    [Es256Key EXCEPT !.alg = RS256],
    [Es256Key EXCEPT !.alg = -65535] }

Schemes == { <<"ECDSA", "SHA-256">>, <<"RSASSA-PKCS1-v1_5", "SHA-256">>, <<"Ed25519", "SHA-512">> }

Signatures(data) ==
  { Signature(signer, scheme[1], scheme[2], over)
    : signer \in {"kp1", "kp2"}, scheme \in Schemes, over \in {data, <<"other">>} }

SignedData == <<"authenticatorData", "clientDataHash">>

InitSignature ==
  /\ rawConfig \in {c \in CeremonyConfigs : ~c.storageAdapter}
  /\ ctor = "constructed"
  /\ config = buildInternalConfig(rawConfig)
  /\ now = 0
  /\ challengesMap = EmptyMap
  /\ credentialsMap = [id \in StoredCredIds |-> [counter |-> 0, lastUsedAt |-> -1]]
  /\ credentialsByUserId = StoredIndex
  /\ calls = [p \in Calls |-> Idle]
  /\ vin \in { [copy |-> c, publicKey |-> k, signature |-> s, data |-> SignedData]
               : c \in SignatureCopies, k \in SignatureKeys, s \in Signatures(SignedData) }
  /\ vout = Null
  /\ NoSessions

ApplyVerifySignature ==
  /\ vout = Null
  /\ vout' = IF vin.copy = "verify.ts"
               THEN legacyVerifySignature(vin.signature, vin.data, vin.publicKey)
               ELSE verifySignature(vin.signature, vin.data, vin.publicKey)
  /\ UNCHANGED <<rawConfig, ctor, config, now, challengesMap, credentialsMap, credentialsByUserId, calls, vin,
                 sessionVars>>

NextSignature == ApplyVerifySignature

SpecSignature == InitSignature /\ [][NextSignature]_vars

(* C27: verifySignature raises configuration errors only (an algorithm     *)
(* that is unknown, unsupported or not of the key's type), and with a key  *)
(* of a supported algorithm it returns a boolean, false when the crypto    *)
(* library fails on the key material.                                      *)
C27_CryptoErrorsReturnFalse ==
  vout # Null =>
    LET k == vin.publicKey
        supported == \/ k.kty = EC2 /\ k.alg = ES256 /\ k.crv = P256
                     \/ k.kty = RSA /\ k.alg = RS256
    IN
    /\ vout.thrown =>
         vout.code \in {"COSE_UNKNOWN_ALGORITHM", "UNSUPPORTED_ALGORITHM", "UNSUPPORTED_CURVE",
                        "UNSUPPORTED_OKP_ALGORITHM", "UNSUPPORTED_KEY_TYPE",
                        "ED25519_NOT_IMPLEMENTED"}
    /\ supported => ~vout.thrown
    /\ (supported /\ k.kty = EC2 /\ k.x.len # 32) => ~vout.value

(***************************************************************************)
(* verifyAuthenticationResponse with stored keys of the three variants.   *)
(***************************************************************************)
KeyInputs ==
  { [response |->
       [id |-> "c1", jsonOk |-> TRUE, type |-> "webauthn.get", challenge |-> "ch1",
        origin |-> Origin, authData |-> AuthData(RpId, n), cborOk |-> TRUE,
        signature |->
          Signature(signer, scheme[1], scheme[2],
                    <<AuthData(RpId, IF valid THEN n ELSE 0),
                      sha256(<<"webauthn.get", "ch1", Origin>>)>>)],
     expectedChallenge |-> "ch1",
     expectedOrigin |-> ConfigOrigin,
     expectedRPID |-> <<RpId>>,
     credential |-> [id |-> "c1", counter |-> old, publicKey |-> <<k>>],
     requireUserVerification |-> FALSE]
    : n \in {5, 6}, old \in {0, 5}, k \in {Es256Key, RsaKey, Ed25519Key},
      signer \in {"kp1", "kp2"}, scheme \in Schemes, valid \in BOOLEAN }

InitKeys ==
  /\ rawConfig \in {c \in CeremonyConfigs : ~c.storageAdapter}
  /\ ctor = "constructed"
  /\ config = buildInternalConfig(rawConfig)
  /\ now = 0
  /\ challengesMap = EmptyMap
  /\ credentialsMap = [id \in StoredCredIds |-> [counter |-> 0, lastUsedAt |-> -1]]
  /\ credentialsByUserId = StoredIndex
  /\ calls = [p \in Calls |-> Idle]
  /\ vin \in KeyInputs
  /\ vout = Null
  /\ NoSessions

NextKeys == ApplyVerifyAuthentication

SpecKeys == InitKeys /\ [][NextKeys]_vars

(* C28: an assertion signed with Ed25519 by the holder of the stored OKP    *)
(* key, over authenticatorData || SHA-256(clientDataJSON), is verified.     *)
C28_Ed25519AssertionVerifies ==
  (/\ vout # Null
   /\ vin.credential.publicKey = <<Ed25519Key>>
   /\ vin.response.signature = Signature("kp1", "Ed25519", "SHA-512", SignatureBase(vin.response))
   /\ vin.response.authData.counter > vin.credential.counter)
  => vout.verified

(* C23: verifyAuthenticationResponse raises the error of the first step    *)
(* that fails, in the order credential id, type, challenge, origin,        *)
(* authData parse, RP ID hash, flags, counter, key parse, signature.       *)
C23_AuthenticationFirstFailureWins ==
  vout # Null =>
    LET r == vin.response
        a == r.authData
        c == vin.credential
        idOk == r.id = c.id
        typeOk == r.jsonOk /\ r.type = "webauthn.get"
        challengeOk == r.challenge = vin.expectedChallenge
        originOk == r.origin \in vin.expectedOrigin
        parseOk == a.len >= 37
        rpIdOk == \E i \in 1..Len(vin.expectedRPID) : a.rpIdHash = sha256(vin.expectedRPID[i])
        flagsOk == a.up /\ (vin.requireUserVerification => a.uv)
        counterOk == a.counter > c.counter \/ (a.counter = 0 /\ c.counter = 0)
        keyOk == c.publicKey = <<Es256Key>>
        signatureOk == r.signature.over = SignatureBase(r)
        upTo4 == idOk /\ typeOk /\ challengeOk /\ originOk
        upTo8 == upTo4 /\ parseOk /\ rpIdOk /\ flagsOk /\ counterOk
    IN
    /\ ~idOk => vout.code = "CREDENTIAL_ID_MISMATCH"
    /\ (idOk /\ r.jsonOk /\ ~typeOk) => vout.code = "INVALID_CLIENT_DATA_TYPE"
    /\ (idOk /\ typeOk /\ ~challengeOk) => vout.code = "CHALLENGE_MISMATCH"
    /\ (idOk /\ typeOk /\ challengeOk /\ ~originOk) => vout.code = "ORIGIN_MISMATCH"
    /\ (upTo4 /\ ~parseOk) => vout.code = "AUTHENTICATOR_DATA_TOO_SHORT"
    /\ (upTo4 /\ parseOk /\ ~rpIdOk) => vout.code = "RPID_MISMATCH"
    /\ (upTo4 /\ parseOk /\ rpIdOk /\ ~flagsOk) =>
         vout.code = IF ~a.up THEN "USER_PRESENCE_REQUIRED" ELSE "USER_VERIFICATION_REQUIRED"
    /\ (upTo4 /\ parseOk /\ rpIdOk /\ flagsOk /\ ~counterOk) => vout.code = "COUNTER_ERROR"
    /\ (upTo8 /\ ~keyOk) => vout.code = "COSE_DECODE_ERROR"
    /\ (upTo8 /\ keyOk /\ ~signatureOk) => vout.code = "SIGNATURE_VERIFICATION_FAILED"
    /\ (upTo8 /\ keyOk /\ signatureOk) => vout.verified

(* An assertion for another credential, wrong in its client data too, is   *)
(* rejected for the credential id; one with a stale counter and a bad      *)
(* signature is rejected for the counter.                                  *)
C23_Witness ==
  /\ vout # Null
  /\ vin.response.id = vin.credential.id
  /\ vin.response.authData.counter # 0
  /\ vin.response.authData.counter <= vin.credential.counter
  /\ vin.response.signature.over # SignatureBase(vin.response)
  /\ vin.credential.publicKey # <<Es256Key>>
  /\ vout.thrown
  /\ vout.code = "COUNTER_ERROR"

(***************************************************************************)
(* Per-call parameters of the options calls.  vin holds the parameters a   *)
(* caller passes (0 and "" stand for a parameter that is not passed) and   *)
(* the UV flag of the assertion the client then sends; the clock does not  *)
(* advance inside the call here.                                           *)
(***************************************************************************)
(* generateRegistrationOptions: the timeout and user verification of the    *)
(* options it returns.                                                      *)
generateRegistrationOptions(cfg, params) ==
  [timeout |-> cfg.timeout, userVerification |-> cfg.userVerification]

(* generateAuthenticationOptions, with the parameters createAuthenticationOptions *)
(* fills in: timeout ?? config.timeout, userVerification ?? config's.       *)
generateAuthenticationOptions(cfg, params) ==
  [timeout |-> IF params.timeout # 0 THEN params.timeout ELSE cfg.timeout,
   userVerification |-> IF params.userVerification # "" THEN params.userVerification
                                                         ELSE cfg.userVerification]

ParamConfigs ==
  { c \in RawConfigs : /\ c.rpName /\ c.rpID /\ c.origin
                       /\ c.secretLen = 32 /\ c.challengeSize = 0
                       /\ c.timeout \in {0, 10000}
                       /\ c.sessionDuration = 0 }

OptionParams ==
  [op : {"createRegistrationOptions", "createAuthenticationOptions"},
   timeout : {0, 30000, 90000},
   userVerification : {"", "required", "discouraged"},
   uv : BOOLEAN]

InitParams ==
  /\ rawConfig \in ParamConfigs
  /\ ctor = "constructed"
  /\ config = buildInternalConfig(rawConfig)
  /\ now = 0
  /\ challengesMap = EmptyMap
  /\ credentialsMap = [id \in StoredCredIds |-> [counter |-> 0, lastUsedAt |-> -1]]
  /\ credentialsByUserId = StoredIndex
  /\ calls = [p \in Calls |-> Idle]
  /\ vin \in OptionParams
  /\ vout = [stage |-> "start", options |-> [timeout |-> 0, userVerification |-> ""],
             result |-> NoResult]
  /\ NoSessions

(* The options call with the caller's parameters. *)
CreateOptionsWith ==
  /\ vout.stage = "start"
  /\ CreateOptions("a", vin.op, "ch1", 0, FALSE)
  /\ vout' = [vout EXCEPT !.stage = "issued",
                !.options = IF vin.op = "createRegistrationOptions"
                              THEN generateRegistrationOptions(config, vin)
                              ELSE generateAuthenticationOptions(config, vin)]
  /\ UNCHANGED <<vin, sessionVars>>

(* The otherwise valid assertion the client sends for the challenge issued. *)
IssuedAssertion ==
  Signed([id |-> "c1", jsonOk |-> TRUE, type |-> "webauthn.get", challenge |-> "ch1",
          origin |-> Origin, authData |-> [AuthData(RpId, 5) EXCEPT !.uv = vin.uv],
          signature |-> Signature(None, "", "", <<>>), cborOk |-> TRUE], TRUE)

(* verifyAuthentication of the ceremony whose options were issued. *)
VerifyIssued ==
  /\ vout.stage = "issued"
  /\ vin.op = "createAuthenticationOptions"
  /\ VerifyAuthentication("a", IssuedAssertion, "ch1",
                          [id |-> "c1", counter |-> 0, publicKey |-> StoredKey(TRUE)], FALSE)
  /\ vout' = [vout EXCEPT !.stage = "verified",
                !.result = verifyAuthenticationResponse(config,
                             AuthenticationParams(IssuedAssertion, "ch1",
                               [id |-> "c1", counter |-> 0, publicKey |-> StoredKey(TRUE)]))]
  /\ UNCHANGED <<vin, sessionVars>>

NextParams ==
  \/ CreateOptionsWith
  \/ VerifyIssued
  \/ ResumeUpdateLastUsed("a", FALSE) /\ UNCHANGED <<vin, vout, sessionVars>>
  \/ ResumeDelete("a", FALSE) /\ UNCHANGED <<vin, vout, sessionVars>>
  \/ Return("a") /\ UNCHANGED <<vin, vout, sessionVars>>

SpecParams == InitParams /\ [][NextParams]_vars

(* C31: the timeout of the options returned is the per-call timeout when   *)
(* one is passed and the configured timeout otherwise, for registration    *)
(* and for authentication options.                                         *)
C31_OptionsTimeout ==
  vout.stage # "start" =>
    vout.options.timeout = IF vin.timeout # 0 THEN vin.timeout ELSE config.timeout

(* C33: when the options of the ceremony were generated with a per-call    *)
(* userVerification of 'required', verifyAuthentication rejects an         *)
(* assertion whose UV flag is clear.                                       *)
C33_PerCallUserVerificationEnforced ==
  (vout.stage = "verified" /\ vin.userVerification = "required" /\ ~vin.uv) =>
    /\ vout.result.thrown
    /\ vout.result.code = "USER_VERIFICATION_REQUIRED"

(* C34: the lifetime of the challenge record an options call writes is the *)
(* timeout of the options the call returns.                                *)
C34_RecordLifetimeIsOptionsTimeout ==
  (vout.stage # "start" /\ "ch1" \in DOMAIN challengesMap) =>
    challengesMap["ch1"].expiresAt - challengesMap["ch1"].createdAt = vout.options.timeout

(***************************************************************************)
(* createSession with additional data.  An object of additional data is a  *)
(* function from the keys it has to their values.                          *)
(***************************************************************************)
(* The object literal of createSession: the four fields of the call, then   *)
(* the spread of additionalData, whose keys replace fields of the same name. *)
SessionDataWith(userId, credentialId, expiresAt, userVerified, additionalData) ==
  LET fields == [userId |-> userId, credentialId |-> credentialId, expiresAt |-> expiresAt,
                 userVerified |-> userVerified]
  IN [k \in (DOMAIN fields) \cup (DOMAIN additionalData) |->
        IF k \in DOMAIN additionalData THEN additionalData[k] ELSE fields[k]]

(* Values a caller may put in additionalData, by key. *)
AdditionalValues ==
  [userId |-> "u2", credentialId |-> "c2", expiresAt |-> DateOf(MaxTime * 1000),
   userVerified |-> TRUE, role |-> "admin"]

AdditionalDatas ==
  { [k \in keys |-> AdditionalValues[k]] : keys \in SUBSET (DOMAIN AdditionalValues) }

InitCreate ==
  /\ rawConfig \in SessionConfigs
  /\ ctor = "constructed"
  /\ config = buildInternalConfig(rawConfig)
  /\ now = 0
  /\ challengesMap = EmptyMap
  /\ credentialsMap = [id \in StoredCredIds |-> [counter |-> 0, lastUsedAt |-> -1]]
  /\ credentialsByUserId = StoredIndex
  /\ calls = [p \in Calls |-> Idle]
  /\ vin \in [userId : {"u1"}, credentialId : {"c1"}, userVerified : BOOLEAN,
              additionalData : AdditionalDatas]
  /\ vout = Null
  /\ NoSessions

(* createSession(userId, credentialId, userVerified, additionalData) *)
CreateSessionWith ==
  /\ vout = Null
  /\ LET sessionId == history.nextSessionId
         sessionData == SessionDataWith(vin.userId, vin.credentialId,
                                        DateOf(now + config.sessionDuration),
                                        vin.userVerified, vin.additionalData)
         w == sessions_create(sessionsMap, sessionsByUserId, sessionId, sessionData)
     IN /\ IF HasStorage
             THEN sessionsMap' = w.map /\ sessionsByUserId' = w.index
             ELSE UNCHANGED <<sessionsMap, sessionsByUserId>>
        /\ history' = [history EXCEPT !.nextSessionId = @ + 1]
        /\ vout' = [sessionId |-> sessionId, data |-> sessionData,
                    token |-> createSessionToken(sessionId, sessionData, ServerSecret, now)]
  /\ UNCHANGED <<rawConfig, ctor, config, now, challengesMap, credentialsMap, credentialsByUserId, calls, vin,
                 scalls, tokens>>

NextCreate == CreateSessionWith \/ Tick

SpecCreate == InitCreate /\ [][NextCreate]_vars

(* C32: the user id, credential id, user-verified flag and expiresAt of a  *)
(* session createSession creates are the arguments of the call and now +   *)
(* session duration, whatever keys additionalData has.                     *)
C32_SessionFieldsAreTheArguments ==
  vout # Null =>
    \E t \in 0..MaxTime :
      /\ vout.data.userId = vin.userId
      /\ vout.data.credentialId = vin.credentialId
      /\ vout.data.userVerified = vin.userVerified
      /\ vout.data.expiresAt = DateOf(t + config.sessionDuration)

(***************************************************************************)
(* Two callers on one session of a server with the in-memory store: "a"    *)
(* creates the session, validates and refreshes its tokens, "b" revokes    *)
(* it, and the steps of their calls interleave at every await.             *)
(***************************************************************************)
InitRace ==
  /\ rawConfig \in {c \in SessionConfigs : c.storageAdapter}
  /\ ctor = "constructed"
  /\ config = buildInternalConfig(rawConfig)
  /\ now = 0
  /\ challengesMap = EmptyMap
  /\ credentialsMap = [id \in StoredCredIds |-> [counter |-> 0, lastUsedAt |-> -1]]
  /\ credentialsByUserId = StoredIndex
  /\ calls = [p \in Calls |-> Idle]
  /\ vin = Null
  /\ vout = Null
  /\ NoSessions

NextRace ==
  \/ history.nextSessionId = 1 /\ CreateSession("a", "u1", FALSE)
  \/ ResumeCreateSession("a")
  \/ \E op \in {"validateSession", "refreshSession"}, t \in tokens :
        ValidateSession("a", op, t, FALSE)
  \/ ResumeValidate("a")
  \/ ResumeRefresh("a", FALSE)
  \/ ResumeRefreshToken("a")
  \/ \E t \in tokens : RevokeSession("b", t, FALSE)
  \/ ResumeRevoke("b")
  \/ \E p \in Calls : SReturn(p)
  \/ Tick

SpecRace == InitRace /\ [][NextRace]_vars

(* validateSession(token) would return valid in this state. *)
Validates(token) ==
  LET parsed == parseSessionToken(token, ServerSecret)
  IN /\ ~parsed.thrown
     /\ ~TokenExpired(parsed.data, now)
     /\ HasStorage => sessions_find(sessionsMap, parsed.sessionId, now) # Null

(* The tokens returned to callers or about to be. *)
Issued == tokens \cup {scalls[p].result.token : p \in {q \in Calls : scalls[q].pc = "done"}}

(* C35: once a revokeSession and a refreshSession running concurrently on  *)
(* one session of the in-memory store have both finished, no token of the  *)
(* session validates: the refresh does not put back the deleted session.   *)
C35_RefreshNeverRestoresRevoked ==
  \A s \in 1..MaxSessions :
    (/\ \E p \in Calls : scalls[p].op = "revokeSession" /\ scalls[p].pc = "done"
                          /\ scalls[p].sessionId = s
     /\ \A p \in Calls : scalls[p].op = "refreshSession" => scalls[p].pc = "done")
    => /\ s \notin DOMAIN sessionsMap
       /\ \A t \in Issued \ {Null} : t.payload.sessionId = s => ~Validates(t)

(* The refresh found the session, the revoke deleted it, and both finished: *)
(* the refresh returned a new token and the session is gone.               *)
C35_Witness ==
  /\ scalls["a"].op = "refreshSession"
  /\ scalls["a"].pc = "done"
  /\ scalls["a"].found # Null
  /\ ~scalls["a"].result.thrown
  /\ scalls["b"].op = "revokeSession"
  /\ scalls["b"].pc = "done"
  /\ scalls["b"].sessionId = scalls["a"].sessionId
  /\ scalls["a"].sessionId \notin DOMAIN sessionsMap
  /\ ~Validates(scalls["a"].result.token)

(***************************************************************************)
(* One caller creating a session, refreshing it and presenting its tokens  *)
(* again, on a clock that advances by half the session duration.           *)
(***************************************************************************)
HalfTick ==
  /\ now < MaxTime
  /\ now' = now + (TickMs \div 2)
  /\ UNCHANGED <<rawConfig, ctor, config, challengesMap, credentialsMap, credentialsByUserId, calls, vin, vout,
                 sessionVars>>

NextRefresh ==
  \/ history.nextSessionId = 1 /\ CreateSession("a", "u1", FALSE)
  \/ ResumeCreateSession("a")
  \/ \E op \in {"validateSession", "refreshSession"}, t \in tokens :
        ValidateSession("a", op, t, FALSE)
  \/ ResumeValidate("a")
  \/ ResumeRefresh("a", FALSE)
  \/ ResumeRefreshToken("a")
  \/ \E t \in tokens : RevokeSession("a", t, FALSE)
  \/ ResumeRevoke("a")
  \/ SReturn("a")
  \/ HalfTick

SpecRefresh == InitSession /\ [][NextRefresh]_vars

(***************************************************************************)
(* The outcome of the two verifiers, each applied to its own inputs: the   *)
(* attestations of RegisterInputs, and the assertions of VerifyInputs and  *)
(* KeyInputs (the only inputs that name a credential).                     *)
(***************************************************************************)
InitOutcome ==
  /\ rawConfig \in {c \in CeremonyConfigs : ~c.storageAdapter}
  /\ ctor = "constructed"
  /\ config = buildInternalConfig(rawConfig)
  /\ now = 0
  /\ challengesMap = EmptyMap
  /\ credentialsMap = [id \in StoredCredIds |-> [counter |-> 0, lastUsedAt |-> -1]]
  /\ credentialsByUserId = StoredIndex
  /\ calls = [p \in Calls |-> Idle]
  /\ vin \in RegisterInputs \cup VerifyInputs \cup KeyInputs
  /\ vout = Null
  /\ NoSessions

NextOutcome ==
  \/ "credential" \in DOMAIN vin /\ ApplyVerifyAuthentication
  \/ "credential" \notin DOMAIN vin /\ ApplyVerifyRegistration

SpecOutcome == InitOutcome /\ [][NextOutcome]_vars

(* C37: verifyRegistrationResponse and verifyAuthenticationResponse never   *)
(* return verified = false: a call either returns verified = true with its  *)
(* info (the credential id, the RP ID, and the key or the new counter), or  *)
(* throws an error that carries a code.                                     *)
C37_VerifiedOrThrows ==
  vout # Null =>
    IF vout.thrown
      THEN vout.code \notin {None, "ok", ""}
      ELSE /\ vout.verified
           /\ vout.credentialID # None
           /\ vout.rpID # None
           /\ "credential" \in DOMAIN vin => vout.newCounter = vin.response.authData.counter
           /\ "credential" \notin DOMAIN vin => vout.publicKey # <<>>

(* verifyAuthenticationResponse was given a signature that does not verify  *)
(* and threw.                                                               *)
C37_Witness ==
  /\ vout # Null
  /\ vout.thrown
  /\ vout.code = "SIGNATURE_VERIFICATION_FAILED"
  /\ ~vout.verified

(***************************************************************************)
(* MemoryStorageAdapter.credentials with its user index.  A credential is  *)
(* stored under the id the caller gives; credentialsByUserId maps a user   *)
(* id to the set of credential ids created for it.                         *)
(***************************************************************************)
CredentialIds == {"c1", "c2"}

(* credentials.create(credential): the map entry is replaced, the id is     *)
(* added to the set of credential.userId.                                   *)
credentials_create(m, ix, credential) ==
  [map   |-> [id \in (DOMAIN m) \cup {credential.id} |->
                IF id = credential.id THEN credential ELSE m[id]],
   index |-> [u \in (DOMAIN ix) \cup {credential.userId} |->
                IF u = credential.userId
                  THEN (IF u \in DOMAIN ix THEN ix[u] ELSE {}) \cup {credential.id}
                  ELSE ix[u]]]

(* credentials.findByUserId(userId): the stored credentials whose ids are   *)
(* in the set of userId.                                                    *)
credentials_findByUserId(m, ix, userId) ==
  LET credentialIds == IF userId \in DOMAIN ix THEN ix[userId] ELSE {} IN
  {m[id] : id \in credentialIds \cap DOMAIN m}

(* credentials.delete(id): the id leaves the set of the stored credential's *)
(* user, and the map.                                                       *)
credentials_delete(m, ix, id) ==
  IF id \in DOMAIN m
    THEN [map   |-> [c \in (DOMAIN m) \ {id} |-> m[c]],
          index |-> [u \in DOMAIN ix |->
                       IF u = m[id].userId THEN ix[u] \ {id} ELSE ix[u]]]
    ELSE [map |-> m, index |-> ix]

(* credentials.delete of every id of a set, one after the other *)
RECURSIVE credentials_deleteAll(_, _, _)
credentials_deleteAll(m, ix, ids) ==
  IF ids = {} THEN [map |-> m, index |-> ix]
  ELSE LET id == CHOOSE c \in ids : TRUE
           w == credentials_delete(m, ix, id)
       IN credentials_deleteAll(w.map, w.index, ids \ {id})

(* credentials.deleteByUserId(userId) *)
credentials_deleteByUserId(m, ix, userId) ==
  LET credentialIds == IF userId \in DOMAIN ix THEN ix[userId] ELSE {} IN
  IF credentialIds = {}
    THEN [map |-> m, index |-> ix]
    ELSE LET w == credentials_deleteAll(m, ix, credentialIds)
         IN [map |-> w.map, index |-> [u \in (DOMAIN w.index) \ {userId} |-> w.index[u]]]

InitCredentials ==
  /\ rawConfig \in {c \in SessionConfigs : c.storageAdapter}
  /\ ctor = "pending"
  /\ config = Null
  /\ now = 0
  /\ challengesMap = EmptyMap
  /\ credentialsMap = EmptyMap
  /\ credentialsByUserId = EmptyMap
  /\ calls = [p \in Calls |-> Idle]
  /\ vin = Null
  /\ vout = Null
  /\ NoSessions

AdapterCredentials(w) ==
  /\ credentialsMap' = w.map
  /\ credentialsByUserId' = w.index
  /\ UNCHANGED <<rawConfig, ctor, config, now, challengesMap, calls, vin, vout, sessionVars>>

NextCredentials ==
  \/ \E id \in CredentialIds, u \in Users, n \in Counters :
        AdapterCredentials(credentials_create(credentialsMap, credentialsByUserId,
                             [id |-> id, userId |-> u, counter |-> n, lastUsedAt |-> -1]))
  \/ \E id \in CredentialIds :
        AdapterCredentials(credentials_delete(credentialsMap, credentialsByUserId, id))
  \/ \E u \in Users :
        AdapterCredentials(credentials_deleteByUserId(credentialsMap, credentialsByUserId, u))

SpecCredentials == InitCredentials /\ [][NextCredentials]_vars

(* C38: in the in-memory adapter, after any sequence of credentials.create, *)
(* delete and deleteByUserId calls, credentials.findByUserId(u) returns     *)
(* exactly the stored credentials whose userId is u.                        *)
C38_FindByUserIdReturnsTheUsersCredentials ==
  \A u \in Users :
    credentials_findByUserId(credentialsMap, credentialsByUserId, u)
      = {credentialsMap[id] : id \in {c \in DOMAIN credentialsMap : credentialsMap[c].userId = u}}

(***************************************************************************)
(* The DER lengths of the SubjectPublicKeyInfo built from a COSE key.  A   *)
(* key is given by the byte lengths of its parts; each definite-length     *)
(* element the code writes is recorded as the octet put after its tag and  *)
(* the number of content bytes that follow up to the end of the element.   *)
(***************************************************************************)
(* Buffer.from([.. n ..]): a number is stored as one byte. *)
Byte(n) == n % 256

(* The length a single DER length octet states: itself below 0x80; 0x80 and *)
(* above are not lengths (indefinite form, or a count of length octets).    *)
DerLength(octet) == IF octet < 128 THEN octet ELSE -1

Element(name, octet, content) == [name |-> name, octet |-> octet, content |-> content]

(* curveOid.length of ec2KeyToSPKI; 0 for a curve it rejects *)
CurveOidLength(namedCurve) ==
  CASE namedCurve = "P-256" -> 8
    [] namedCurve = "P-384" -> 5
    [] namedCurve = "P-521" -> 5
    [] OTHER -> 0

(* ec2KeyToSPKI(key, namedCurve), key.x of x bytes and key.y of y bytes *)
ec2SPKIElements(x, y, namedCurve) ==
  LET point == 1 + x + y
      curveOid == CurveOidLength(namedCurve)
      algorithmIdentifier == 2 + 2 + 7 + 2 + curveOid
      bitString == 3 + point
  IN << Element("algorithmIdentifier", 19, 2 + 7 + 2 + curveOid),
        Element("ecPublicKey", 7, 7),
        Element("curveOid", Byte(curveOid), curveOid),
        Element("bitString", Byte(point + 1), 1 + point),
        Element("spki", Byte(algorithmIdentifier + bitString), algorithmIdentifier + bitString) >>

(* rsaKeyToSPKI(key), key.n of n bytes and key.e of e bytes *)
rsaSPKIElements(n, e) ==
  LET modulus == 2 + n
      exponent == 2 + e
      rsaPublicKey == 2 + modulus + exponent
      algorithmIdentifier == 15
      bitString == 3 + rsaPublicKey
  IN << Element("modulus", Byte(n), n),
        Element("exponent", Byte(e), e),
        Element("rsaPublicKey", Byte(modulus + exponent), modulus + exponent),
        Element("algorithmIdentifier", 13, 2 + 9 + 2),
        Element("rsaEncryption", 9, 9),
        Element("parameters", 0, 0),
        Element("bitString", Byte(rsaPublicKey + 1), 1 + rsaPublicKey),
        Element("spki", Byte(algorithmIdentifier + bitString), algorithmIdentifier + bitString) >>

(* Byte lengths of a coordinate of each curve, and of moduli and exponents. *)
CoordinateLength(namedCurve) ==
  CASE namedCurve = "P-256" -> 32
    [] namedCurve = "P-384" -> 48
    [] namedCurve = "P-521" -> 66

SpkiKeys ==
  [kty : {EC2}, namedCurve : {"P-256", "P-384", "P-521"}, x : {31, 32, 48, 66},
   y : {31, 32, 48, 66}, n : {0}, e : {0}]
  \cup [kty : {RSA}, namedCurve : {""}, x : {0}, y : {0},
        n : {64, 127, 128, 129, 255, 256, 257, 384, 512}, e : {1, 3, 4}]

(* The keys the verifier supports: EC2 keys with coordinates of the curve's *)
(* size, RSA keys with a modulus of 128 bytes or more.                      *)
SupportedKey(key) ==
  IF key.kty = EC2
    THEN key.x = CoordinateLength(key.namedCurve) /\ key.y = CoordinateLength(key.namedCurve)
    ELSE key.n >= 128

InitSpki ==
  /\ rawConfig \in {c \in CeremonyConfigs : ~c.storageAdapter}
  /\ ctor = "constructed"
  /\ config = buildInternalConfig(rawConfig)
  /\ now = 0
  /\ challengesMap = EmptyMap
  /\ credentialsMap = [id \in StoredCredIds |-> [counter |-> 0, lastUsedAt |-> -1]]
  /\ credentialsByUserId = StoredIndex
  /\ calls = [p \in Calls |-> Idle]
  /\ vin \in SpkiKeys
  /\ vout = Null
  /\ NoSessions

ApplyKeyToSPKI ==
  /\ vout = Null
  /\ vout' = IF vin.kty = EC2 THEN ec2SPKIElements(vin.x, vin.y, vin.namedCurve)
                              ELSE rsaSPKIElements(vin.n, vin.e)
  /\ UNCHANGED <<rawConfig, ctor, config, now, challengesMap, credentialsMap,
                 credentialsByUserId, calls, vin, sessionVars>>

NextSpki == ApplyKeyToSPKI

SpecSpki == InitSpki /\ [][NextSpki]_vars

(* C39: for every supported key (EC2 on P-256, P-384 and P-521, RSA with a  *)
(* modulus of 128 bytes or more), each length octet of the                  *)
(* SubjectPublicKeyInfo the verifier builds states the true length of the   *)
(* content it precedes.                                                     *)
C39_LengthOctetsAreTrue ==
  (vout # Null /\ SupportedKey(vin)) =>
    \A i \in DOMAIN vout : DerLength(vout[i].octet) = vout[i].content


====
